---- MODULE Spec2Model ----
\* AquaAdvisor backend: the stress forecast model (training thread and
\* inference calls), the stress zone classifier, the recommendation engine
\* and the financial ROI calculator.
\*
\* Number conventions: vegetation index values are integers in thousandths
\* (0.3 is 300); percentages, money and water volumes are exact rationals
\* kept as integers over a stated denominator.
EXTENDS Integers, Sequences, FiniteSets, TLC

\* ------------------------------------------------------------------ bounds
MaxTrain == 1
MaxConcForecast == 2
MaxForecast == 8

\* --------------------------------------------------------------- helpers
Min(a, b) == IF a < b THEN a ELSE b
Max(a, b) == IF a > b THEN a ELSE b

RECURSIVE SeqsUpTo(_, _)
SeqsUpTo(S, n) ==
    IF n = 0 THEN {<<>>}
    ELSE LET shorter == SeqsUpTo(S, n - 1)
         IN  shorter \cup {Append(s, x) : s \in {t \in shorter : Len(t) = n - 1}, x \in S}

RECURSIVE SumSeq(_)
SumSeq(s) == IF s = <<>> THEN 0 ELSE Head(s) + SumSeq(Tail(s))

\* =====================================================================
\* Stress forecast model (models/stress_predictor.py, app.py)
\* =====================================================================

VARIABLES
    model,                \* self.model: the classifier object, or None
    feature_importance,   \* self.feature_importance: id of the model it was read from, 0 = None
    artifact,             \* models/stress_model.pkl on disk
    tpc,                  \* position of the thread running train_model
    trainRuns,            \* train_model calls started
    completed,            \* train_model calls that returned
    ppc,                  \* position of the request running predict_stress
    current_ndvi, weather_forecast,
    day_idx, days_since_rain, cumulative_rainfall,
    stress_class,         \* result of self.model.predict for the day in progress
    predictions,
    result,
    untrainedAtCall,      \* history: no fitted model and no finished training when the call began
    forecast_response     \* what predict_future_stress answered

trainVars == <<model, feature_importance, artifact, tpc, trainRuns, completed>>
callVars == <<ppc, current_ndvi, weather_forecast, day_idx, days_since_rain,
              cumulative_rainfall, stress_class, predictions, result, untrainedAtCall,
              forecast_response>>
predictorVars == <<trainVars, callVars>>

NoModel == [id |-> 0, fit |-> "none", clf |-> "none"]
NoArtifact == [state |-> "absent", model |-> NoModel, feature_importance |-> 0]
NoResult == [status |-> "none"]
NoClass == [class |-> -1, id |-> 0]

\* What fit() can produce: a classifier over the labels {0, 1, 2} of
\* generate_synthetic_data.  "rule" is the labelling rule itself, the others
\* are the constant classifiers.
Classifiers == {"rule", "low", "medium", "high"}

\* generate_synthetic_data, the stress score and its class
StressScore(f) ==
      (IF f.ndvi < 300 THEN 3 ELSE IF f.ndvi < 500 THEN 2 ELSE IF f.ndvi < 600 THEN 1 ELSE 0)
    + (IF f.temp > 38 THEN 2 ELSE IF f.temp > 32 THEN 1 ELSE 0)
    + (IF f.humidity < 35 THEN 2 ELSE IF f.humidity < 50 THEN 1 ELSE 0)
    + (IF f.rainfall < 5 THEN 2 ELSE IF f.rainfall < 15 THEN 1 ELSE 0)
    + (IF f.days_since_rain > 20 THEN 2 ELSE IF f.days_since_rain > 10 THEN 1 ELSE 0)

ScoreClass(f) ==
    LET s == StressScore(f) IN IF s >= 7 THEN 2 ELSE IF s >= 4 THEN 1 ELSE 0

\* self.model.predict(features)[0] on a fitted model
ModelPredict(m, f) ==
    CASE m.clf = "rule" -> ScoreClass(f)
      [] m.clf = "low" -> 0
      [] m.clf = "medium" -> 1
      [] OTHER -> 2

\* self.model.predict_proba(features)[0] on a fitted model, in percent
ModelPredictProba(m, f) ==
    [c \in 0..2 |-> IF c = ModelPredict(m, f) THEN 80 ELSE 10]

\* load_model: a readable artifact sets both fields, any failure leaves None
LoadedModel(a) == IF a.state = "valid" THEN a.model ELSE NoModel
LoadedImportance(a) == IF a.state = "valid" THEN a.feature_importance ELSE 0

\* app.py lines 632-650: the fallback forecast; probabilities in thousandths,
\* importances in hundredths
StaticFallback ==
    [daily_predictions |-> <<>>,
     summary |-> [overall_risk |-> "medium", high_stress_days |-> 0,
                  average_stress_probability1000 |-> 500,
                  recommendation |->
                      "Weather-based prediction unavailable. Monitor field conditions closely.",
                  confidence1000 |-> 500],
     feature_importance |-> [NDVI |-> 35, Temperature |-> 25, Humidity |-> 20,
                             Rainfall |-> 15, DaysSinceRain |-> 5]]

NoForecastResponse == [status |-> 0, kind |-> "none", body |-> <<>>]

ForecastResponse_propagating(r) ==
    IF r.status = "ok" THEN [status |-> 200, kind |-> "forecast", body |-> r]
    ELSE [status |-> 500, kind |-> "error", body |-> r]

\* app.py lines 625-651: the forecast as returned, or the fallback when
\* predict_stress raised; both are answered with status 200
ForecastResponse(r) ==
    IF r.status = "ok" THEN [status |-> 200, kind |-> "forecast", body |-> r]
    ELSE [status |-> 200, kind |-> "fallback", body |-> StaticFallback]

\* Inputs of predict_stress
Weather == {[temp |-> 38, humidity |-> 30, rainfall |-> 0],
            [temp |-> 28, humidity |-> 80, rainfall |-> 12],
            [temp |-> 30, humidity |-> 50, rainfall |-> 5]}
NdviInputs == {450, 890, 950}

\* StressPredictor() at import time of app.py: the artifact is absent,
\* unreadable, or holds a model saved by an earlier process
InitPredictor ==
    /\ artifact \in {NoArtifact,
                     [state |-> "corrupt", model |-> NoModel, feature_importance |-> 0]}
                    \cup {[state |-> "valid",
                           model |-> [id |-> 1, fit |-> "fitted", clf |-> c],
                           feature_importance |-> 1] : c \in Classifiers}
    /\ model = LoadedModel(artifact)
    /\ feature_importance = LoadedImportance(artifact)
    /\ tpc = "idle"
    /\ trainRuns = 0
    /\ completed = 0
    /\ ppc = "idle"
    /\ current_ndvi = 0
    /\ weather_forecast = <<>>
    /\ day_idx = 0
    /\ days_since_rain = 0
    /\ cumulative_rainfall = 0
    /\ stress_class = NoClass
    /\ predictions = <<>>
    /\ result = NoResult
    /\ forecast_response = NoForecastResponse
    /\ untrainedAtCall = FALSE

\* ------------------------------------------------------------ train_model
\* lines 143-151: synthetic data and the train/test split
TrainStart ==
    /\ tpc = "idle"
    /\ trainRuns < MaxTrain
    /\ tpc' = "split"
    /\ trainRuns' = trainRuns + 1
    /\ UNCHANGED <<model, feature_importance, artifact, completed, callVars>>

\* line 155: self.model = RandomForestClassifier(...), not yet fitted
TrainAssign ==
    /\ tpc = "split"
    /\ model' = [id |-> trainRuns + 1, fit |-> "unfitted", clf |-> "none"]
    /\ tpc' = "assigned"
    /\ UNCHANGED <<feature_importance, artifact, trainRuns, completed, callVars>>

\* line 164: self.model.fit(...) mutates the published object in place
TrainFitBegin ==
    /\ tpc = "assigned"
    /\ model' = [model EXCEPT !.fit = "fitting"]
    /\ tpc' = "fitting"
    /\ UNCHANGED <<feature_importance, artifact, trainRuns, completed, callVars>>

TrainFitEnd ==
    /\ tpc = "fitting"
    /\ \E c \in Classifiers : model' = [model EXCEPT !.fit = "fitted", !.clf = c]
    /\ tpc' = "fitted"
    /\ UNCHANGED <<feature_importance, artifact, trainRuns, completed, callVars>>

\* lines 167-177: evaluation, then self.feature_importance = {...}
TrainImportance ==
    /\ tpc = "fitted"
    /\ feature_importance' = model.id
    /\ tpc' = "save"
    /\ UNCHANGED <<model, artifact, trainRuns, completed, callVars>>

\* save_model, lines 292-294: open(self.model_path, 'wb') creates or empties
\* the file before anything is written to it
Truncated == [state |-> "partial", model |-> NoModel, feature_importance |-> 0]

TrainSaveOpen ==
    /\ tpc = "save"
    /\ artifact' = Truncated
    /\ tpc' = "dump"
    /\ UNCHANGED <<model, feature_importance, trainRuns, completed, callVars>>

\* lines 295-300 and 185-190: pickle.dump completes, the file is closed,
\* train_model returns
TrainSave ==
    /\ tpc = "dump"
    /\ artifact' = [state |-> "valid", model |-> model,
                    feature_importance |-> feature_importance]
    /\ completed' = completed + 1
    /\ tpc' = "idle"
    /\ UNCHANGED <<model, feature_importance, trainRuns, callVars>>

\* ---------------------------------------------------------- predict_stress
ForecastWindow_uncapped(f) == f

\* weather_forecast[:7]
ForecastWindow(f) == SubSeq(f, 1, Min(Len(f), 7))

Unavailable == [status |-> "model_unavailable"]
Raised == [status |-> "raised"]

\* lines 204-209: the 'model is None' check and the loop's initial values
PredictCall(maxLen) ==
    /\ ppc = "idle"
    /\ \E n \in NdviInputs, f \in SeqsUpTo(Weather, maxLen) :
         /\ current_ndvi' = n
         /\ weather_forecast' = f
    /\ untrainedAtCall' = (model.fit # "fitted" /\ completed = 0)
    /\ IF model.id = 0
       THEN /\ result' = Unavailable
            /\ ppc' = "done"
       ELSE /\ result' = NoResult
            /\ ppc' = "loop"
    /\ day_idx' = 0
    /\ days_since_rain' = 0
    /\ cumulative_rainfall' = 0
    /\ predictions' = <<>>
    /\ stress_class' = NoClass
    /\ UNCHANGED <<forecast_response, trainVars>>

\* lines 217-222 for the day about to be processed
DaysSinceRain(w) == IF w.rainfall > 5 THEN 0 ELSE days_since_rain + 1

CumulativeRainfall_unfloored(w) ==
    IF w.rainfall > 5 THEN w.rainfall ELSE cumulative_rainfall - 2

\* lines 218-222: the rain of the day, or what evaporation leaves of it
CumulativeRainfall(w) ==
    IF w.rainfall > 5 THEN w.rainfall ELSE Max(0, cumulative_rainfall - 2)

\* lines 226-230, in thousandths
EstimatedNdvi(w, d, dsr) ==
    IF w.rainfall > 10 THEN Min(900, current_ndvi + 20 * d)
    ELSE IF w.temp > 35 \/ dsr > 7 THEN Max(100, current_ndvi - 15 * d)
    ELSE current_ndvi

Features(w, d, dsr, cum) ==
    [ndvi |-> EstimatedNdvi(w, d, dsr), temp |-> w.temp, humidity |-> w.humidity,
     rainfall |-> cum, days_since_rain |-> dsr]

\* lines 211-242: the day's running values and self.model.predict(features).
\* A forest that is not fitted, or whose fit() is still running, raises.
PredictClass ==
    /\ ppc = "loop"
    /\ day_idx < Len(ForecastWindow(weather_forecast))
    /\ LET w == ForecastWindow(weather_forecast)[day_idx + 1]
           dsr == DaysSinceRain(w)
           cum == CumulativeRainfall(w)
           f == Features(w, day_idx + 1, dsr, cum)
       IN  /\ days_since_rain' = dsr
           /\ cumulative_rainfall' = cum
           /\ IF model.fit = "fitted"
              THEN /\ stress_class' = [class |-> ModelPredict(model, f), id |-> model.id]
                   /\ ppc' = "proba"
                   /\ result' = result
              ELSE /\ stress_class' = NoClass
                   /\ ppc' = "done"
                   /\ result' = Raised
    /\ UNCHANGED <<current_ndvi, weather_forecast, day_idx, predictions,
                   untrainedAtCall, forecast_response, trainVars>>

RiskLevel(c) == <<"low", "medium", "high">>[c + 1]

\* lines 243-260: self.model.predict_proba(features) and the day's record;
\* class_model and proba_model remember which model answered
PredictProba ==
    /\ ppc = "proba"
    /\ IF model.fit = "fitted"
       THEN LET w == ForecastWindow(weather_forecast)[day_idx + 1]
                f == Features(w, day_idx + 1, days_since_rain, cumulative_rainfall)
                proba == ModelPredictProba(model, f)
            IN  /\ predictions' = Append(predictions,
                      [day |-> day_idx + 1,
                       stress_class |-> stress_class.class,
                       stress_probability |-> proba[stress_class.class],
                       risk_level |-> RiskLevel(stress_class.class),
                       confidence_score |-> Max(proba[0], Max(proba[1], proba[2])),
                       estimated_ndvi |-> f.ndvi,
                       temp |-> w.temp, humidity |-> w.humidity, rainfall |-> w.rainfall,
                       days_since_rain |-> days_since_rain,
                       class_model |-> stress_class.id,
                       proba_model |-> model.id])
                /\ day_idx' = day_idx + 1
                /\ ppc' = "loop"
                /\ result' = result
       ELSE /\ predictions' = predictions
            /\ day_idx' = day_idx
            /\ ppc' = "done"
            /\ result' = Raised
    /\ stress_class' = NoClass
    /\ UNCHANGED <<current_ndvi, weather_forecast, days_since_rain,
                   cumulative_rainfall, untrainedAtCall, forecast_response, trainVars>>

\* line 263
HighStressDays(ps) == Cardinality({i \in 1..Len(ps) : ps[i].stress_class = 2})

OverallRisk_strict(h) == IF h > 3 THEN "high" ELSE IF h >= 1 THEN "medium" ELSE "low"

\* lines 267-275
OverallRisk(h) == IF h >= 3 THEN "high" ELSE IF h >= 1 THEN "medium" ELSE "low"

Recommendation(h) ==
    IF h >= 3 THEN "URGENT: High stress risk detected. Increase irrigation immediately."
    ELSE IF h >= 1 THEN "MODERATE: Monitor closely and prepare for additional irrigation."
    ELSE "LOW: Continue current irrigation schedule. Monitor conditions."

\* lines 262-287: the summary and the returned ForecastResult; the means are
\* kept as sum and count
PredictSummary ==
    /\ ppc = "loop"
    /\ day_idx = Len(ForecastWindow(weather_forecast))
    /\ LET h == HighStressDays(predictions)
       IN result' = [status |-> "ok",
                     daily_predictions |-> predictions,
                     summary |-> [overall_risk |-> OverallRisk(h),
                                  high_stress_days |-> h,
                                  stress_probability_sum |->
                                      SumSeq([i \in 1..Len(predictions) |->
                                                predictions[i].stress_probability]),
                                  confidence_sum |->
                                      SumSeq([i \in 1..Len(predictions) |->
                                                predictions[i].confidence_score]),
                                  days |-> Len(predictions),
                                  recommendation |-> Recommendation(h)],
                     feature_importance |-> feature_importance]
    /\ ppc' = "done"
    /\ UNCHANGED <<current_ndvi, weather_forecast, day_idx, days_since_rain,
                   cumulative_rainfall, stress_class, predictions, untrainedAtCall,
                   forecast_response, trainVars>>

\* app.py lines 625-651: predict_stress has returned or raised and the
\* endpoint builds its answer
PredictRespond ==
    /\ ppc = "done"
    /\ forecast_response' = ForecastResponse(result)
    /\ ppc' = "responded"
    /\ UNCHANGED <<current_ndvi, weather_forecast, day_idx, days_since_rain,
                   cumulative_rainfall, stress_class, predictions, result, untrainedAtCall,
                   trainVars>>

\* the request ends and its frame is discarded; the next one may begin
PredictReturn ==
    /\ ppc = "responded"
    /\ ppc' = "idle"
    /\ forecast_response' = NoForecastResponse
    /\ current_ndvi' = 0
    /\ weather_forecast' = <<>>
    /\ day_idx' = 0
    /\ days_since_rain' = 0
    /\ cumulative_rainfall' = 0
    /\ stress_class' = NoClass
    /\ predictions' = <<>>
    /\ result' = NoResult
    /\ untrainedAtCall' = FALSE
    /\ UNCHANGED trainVars

\* ---------------------------------------------------------------------
\* Claims about the stress forecast model
\* ---------------------------------------------------------------------

ModelsUsed(ps) ==
    {ps[i].class_model : i \in 1..Len(ps)} \cup {ps[i].proba_model : i \in 1..Len(ps)}

\* C1: an inference call that runs concurrently with a training job never
\* meets a model that is not completely fitted: once past the 'model is
\* None' check the call ends either with the model-unavailable error or with
\* a ForecastResult, never with an error raised by an unfitted model.
C1_InferenceSeesCompleteModel ==
    ppc = "done" => result.status \in {"model_unavailable", "ok"}

\* C2: every ForecastResult comes from exactly one model version: the class
\* and the probability of every day and the returned feature importance
\* carry the id of the same trained model.
C2_OneModelVersion ==
    (ppc = "done" /\ result.status = "ok") =>
        Cardinality(ModelsUsed(result.daily_predictions)
                    \cup {result.feature_importance}) <= 1

\* C3: a call that begins while no fitted model is in place and no training
\* has completed fails with the model-unavailable error before any forecast
\* day is processed, and returns no ForecastResult.
C3_UnavailableWhenUntrained ==
    (ppc = "done" /\ untrainedAtCall) =>
        /\ result = Unavailable
        /\ day_idx = 0
        /\ days_since_rain = 0
        /\ predictions = <<>>

\* C4: with a model in place, predict_stress returns min(len(forecast), 7)
\* daily predictions, numbered 1..N and carrying the inputs of forecast
\* entries 1..N in that order, and summary.high_stress_days is the number of
\* days whose risk level is 'high'.
C4_ForecastLength ==
    (ppc = "done" /\ result.status = "ok") =>
        LET ps == result.daily_predictions
        IN  /\ Len(ps) = Min(Len(weather_forecast), 7)
            /\ \A i \in 1..Len(ps) :
                 /\ ps[i].day = i
                 /\ ps[i].temp = weather_forecast[i].temp
                 /\ ps[i].humidity = weather_forecast[i].humidity
                 /\ ps[i].rainfall = weather_forecast[i].rainfall
            /\ result.summary.high_stress_days =
                 Cardinality({i \in 1..Len(ps) : ps[i].risk_level = "high"})

\* a forecast of more than 7 entries was answered, with some but not all
\* days at high risk
C4_Witness ==
    /\ ppc = "done"
    /\ result.status = "ok"
    /\ Len(weather_forecast) > 7
    /\ Len(result.daily_predictions) = 7
    /\ result.summary.high_stress_days \in 1..6

\* C17: in every ForecastResult the overall risk is 'high' iff at least 3
\* days are predicted as class 2, 'medium' iff 1 or 2 are, 'low' iff none
\* is, and the recommendation is the fixed text of that tier.
C17_OverallRiskTiers ==
    (ppc = "done" /\ result.status = "ok") =>
        LET ps == result.daily_predictions
            h == Cardinality({i \in 1..Len(ps) : ps[i].stress_class = 2})
            risk == result.summary.overall_risk
        IN  /\ risk = "high" <=> h >= 3
            /\ risk = "medium" <=> h \in {1, 2}
            /\ risk = "low" <=> h = 0
            /\ result.summary.recommendation =
                 CASE risk = "high" ->
                        "URGENT: High stress risk detected. Increase irrigation immediately."
                   [] risk = "medium" ->
                        "MODERATE: Monitor closely and prepare for additional irrigation."
                   [] OTHER ->
                        "LOW: Continue current irrigation schedule. Monitor conditions."

\* exactly three of seven days at the highest class
C17_Witness ==
    /\ ppc = "done"
    /\ result.status = "ok"
    /\ Len(result.daily_predictions) = 7
    /\ Cardinality({i \in 1..7 : result.daily_predictions[i].stress_class = 2}) = 3
    /\ result.summary.overall_risk = "high"

\* C18: whenever predict_stress fails inside the forecast endpoint (model
\* unavailable, or an error raised while predicting), in any state of the
\* training job, the endpoint answers the fixed fallback forecast and no
\* error.
C18_FallbackOnFailure ==
    (ppc = "responded" /\ result.status \in {"model_unavailable", "raised"}) =>
        /\ forecast_response.status = 200
        /\ forecast_response.kind = "fallback"
        /\ forecast_response.body = StaticFallback

\* a request whose prediction met the forest while fit() was running
C18_Witness ==
    /\ ppc = "responded"
    /\ result = Raised
    /\ tpc = "fitting"
    /\ Len(weather_forecast) = 2
    /\ forecast_response.kind = "fallback"

\* the number of consecutive days ending at day d with rainfall <= 5 mm
RECURSIVE TrailingDryDays(_, _)
TrailingDryDays(f, d) ==
    IF d = 0 \/ f[d].rainfall > 5 THEN 0 ELSE 1 + TrailingDryDays(f, d - 1)

\* the rain of the last day above 5 mm, less 2 mm for every day since,
\* floored at 0
RECURSIVE RainfallLeft(_, _)
RainfallLeft(f, d) ==
    IF d = 0 THEN 0
    ELSE IF f[d].rainfall > 5 THEN f[d].rainfall
    ELSE Max(0, RainfallLeft(f, d - 1) - 2)

\* C19: after day d has been processed days_since_rain is the number of
\* consecutive most recent days ending at d with rainfall <= 5 mm, and
\* cumulative_rainfall is never negative: it loses the evaporation constant
\* on each day without rain above 5 mm and is floored at 0.
C19_RunningRainValues ==
    /\ cumulative_rainfall >= 0
    /\ ppc = "proba" =>
         /\ days_since_rain = TrailingDryDays(weather_forecast, day_idx + 1)
         /\ cumulative_rainfall = RainfallLeft(weather_forecast, day_idx + 1)
    /\ \A i \in 1..Len(predictions) :
         predictions[i].days_since_rain = TrailingDryDays(weather_forecast, i)

\* rain on day 4, then three days at or below 5 mm, the first with exactly 5 mm
C19_Witness ==
    /\ ppc = "proba"
    /\ day_idx = 6
    /\ weather_forecast[4].rainfall = 12
    /\ weather_forecast[5].rainfall = 5
    /\ weather_forecast[6].rainfall = 0
    /\ weather_forecast[7].rainfall = 0
    /\ days_since_rain = 3
    /\ cumulative_rainfall = 6

\* the estimate of a day derived from the estimate before it, in thousandths
AccumulatedNdvi(previous, w, d, dsr) ==
    IF w.rainfall > 10 THEN Min(900, previous + 20 * d)
    ELSE IF w.temp > 35 \/ dsr > 7 THEN Max(100, previous - 15 * d)
    ELSE previous

\* C20: the index estimated for day d is derived from the estimate of day
\* d-1 (from the current index for day 1): +0.02*d with rainfall > 10 mm,
\* -0.015*d with temperature > 35 or days_since_rain > 7, unchanged
\* otherwise, so that the adjustments accumulate.
C20_EstimatesAccumulate ==
    (ppc = "done" /\ result.status = "ok") =>
        LET ps == result.daily_predictions
        IN  \A i \in 1..Len(ps) :
              ps[i].estimated_ndvi =
                  AccumulatedNdvi(IF i = 1 THEN current_ndvi ELSE ps[i - 1].estimated_ndvi,
                                  weather_forecast[i], i, ps[i].days_since_rain)

\* C21: for every current index in [-1, 1] and every forecast the index
\* estimated for every day, as fed to the model and reported as
\* estimated_ndvi, lies in [0.1, 0.9], in the rain, heat/drought and
\* unchanged branches alike.
C21_EstimateClipped ==
    \A i \in 1..Len(predictions) :
        /\ predictions[i].estimated_ndvi >= 100
        /\ predictions[i].estimated_ndvi <= 900


\* =====================================================================
\* Stress zone classifier (stress_analyzer.py, config.py)
\* =====================================================================

MaxRows == 1
MaxCols == 2

VARIABLES
    NDVI_CRITICAL, NDVI_HIGH_STRESS, NDVI_MODERATE,   \* module globals from config.py
    zpc,                  \* "idle", "classified", "between", "repeated"
    ndvi,                 \* the caller's grid, as it is after the calls
    ndvi_arg,             \* history: the grid as it was passed
    zone_weather,         \* the weather record passed with it
    stress_zones, zone_stats,              \* results of the first call
    stress_zones_again, zone_stats_again,  \* results of the repeated call
    rain_between          \* history: an intervening call had rainfall > 20

configVars == <<NDVI_CRITICAL, NDVI_HIGH_STRESS, NDVI_MODERATE>>
zoneVars == <<configVars, zpc, ndvi, ndvi_arg, zone_weather, stress_zones, zone_stats,
              stress_zones_again, zone_stats_again, rain_between>>

ZoneNames == <<"Critical", "High", "Moderate", "Healthy">>
ZoneColors == <<"red", "orange", "yellow", "green">>

\* the weather argument: None or {} (not given), a record without a
\* 'rainfall' key, or a record with one
NoWeather == [given |-> FALSE, has_rainfall |-> FALSE, rainfall |-> 0]
ZoneWeathers ==
    {NoWeather, [given |-> TRUE, has_rainfall |-> FALSE, rainfall |-> 0]}
    \cup {[given |-> TRUE, has_rainfall |-> TRUE, rainfall |-> r] : r \in {20, 21}}

\* values on and just below the default and the rainfall-adjusted break points
CellValues == {239, 240, 299, 300, 424, 425, 499, 500, 539, 540, 599, 600, 700}

\* a grid of r rows and c columns in which two values alternate
Alternating(r, c, a, b) ==
    [i \in 1..r |-> [j \in 1..c |-> IF (i + j) % 2 = 0 THEN a ELSE b]]

Grids ==
    UNION {{Alternating(r, c, a, b) : a \in CellValues, b \in CellValues} :
              r \in 1..MaxRows, c \in 1..MaxCols}

\* the grids and weather of the requests served between the two calls
OtherInputs == {<<g, w>> : g \in {<<<<299>>>>, <<<<700>>>>}, w \in ZoneWeathers}

AdjustedThresholds_raised(w) ==
    IF w.given /\ w.has_rainfall /\ w.rainfall > 20
    THEN <<(NDVI_CRITICAL * 120) \div 100, (NDVI_HIGH_STRESS * 115) \div 100,
           (NDVI_MODERATE * 110) \div 100>>
    ELSE <<NDVI_CRITICAL, NDVI_HIGH_STRESS, NDVI_MODERATE>>

\* lines 26-34: the thresholds the call classifies with, in thousandths
AdjustedThresholds(w) ==
    IF w.given /\ w.has_rainfall /\ w.rainfall > 20
    THEN <<(NDVI_CRITICAL * 80) \div 100, (NDVI_HIGH_STRESS * 85) \div 100,
           (NDVI_MODERATE * 90) \div 100>>
    ELSE <<NDVI_CRITICAL, NDVI_HIGH_STRESS, NDVI_MODERATE>>

GlobalsAfterDetect_rebound(w) == AdjustedThresholds(w)

\* lines 26-34 rebind local names only: the module globals keep their values
GlobalsAfterDetect(w) == <<NDVI_CRITICAL, NDVI_HIGH_STRESS, NDVI_MODERATE>>

ZoneOf_inclusive(v, t) ==
    IF v <= t[1] THEN 0 ELSE IF v <= t[2] THEN 1 ELSE IF v <= t[3] THEN 2 ELSE 3

\* lines 37-41 for one cell: zeros_like, then the four masked assignments
ZoneOf(v, t) ==
    LET z0 == 0
        z1 == IF v < t[1] THEN 0 ELSE z0
        z2 == IF v >= t[1] /\ v < t[2] THEN 1 ELSE z1
        z3 == IF v >= t[2] /\ v < t[3] THEN 2 ELSE z2
    IN  IF v >= t[3] THEN 3 ELSE z3

DetectStressZones_default(g, w) ==
    [r \in DOMAIN g |-> [c \in DOMAIN g[r] |-> ZoneOf(g[r][c], AdjustedThresholds(NoWeather))]]

\* detect_stress_zones: a new array of the grid's shape
DetectStressZones(g, w) ==
    [r \in DOMAIN g |-> [c \in DOMAIN g[r] |-> ZoneOf(g[r][c], AdjustedThresholds(w))]]

Cells(a) == {<<r, c>> : r \in DOMAIN a, c \in DOMAIN a[1]}

RECURSIVE SumOver(_, _)
SumOver(a, cells) ==
    IF cells = {} THEN 0
    ELSE LET p == CHOOSE q \in cells : TRUE
         IN  a[p[1]][p[2]] + SumOver(a, cells \ {p})

ZonePixels_atleast(zones, i) == Cardinality({p \in Cells(zones) : zones[p[1]][p[2]] >= i})

\* line 63: np.sum(zones == i)
ZonePixels(zones, i) == Cardinality({p \in Cells(zones) : zones[p[1]][p[2]] = i})

\* calculate_zone_statistics: percentage and mean are exact fractions
CalculateZoneStatistics(zones, g) ==
    LET total_pixels == Cardinality(Cells(zones))
        stat(i) ==
            LET zone_pixels == ZonePixels(zones, i)
                members == {p \in Cells(zones) : zones[p[1]][p[2]] = i}
            IN  [percentage |-> [num |-> zone_pixels * 100, den |-> total_pixels],
                 mean_ndvi |-> IF zone_pixels > 0
                               THEN [num |-> SumOver(g, members), den |-> zone_pixels]
                               ELSE [num |-> 0, den |-> 1],
                 color |-> ZoneColors[i + 1]]
    IN  [name \in {ZoneNames[k] : k \in 1..4} |->
            stat((CHOOSE k \in 1..4 : ZoneNames[k] = name) - 1)]

NoZones == <<>>
NoStats == <<>>

InitZones ==
    /\ NDVI_CRITICAL = 300
    /\ NDVI_HIGH_STRESS = 500
    /\ NDVI_MODERATE = 600
    /\ zpc = "idle"
    /\ ndvi = <<>>
    /\ ndvi_arg = <<>>
    /\ zone_weather = NoWeather
    /\ stress_zones = NoZones
    /\ zone_stats = NoStats
    /\ stress_zones_again = NoZones
    /\ zone_stats_again = NoStats
    /\ rain_between = FALSE

\* app.py lines 210-211: detect_stress_zones, then calculate_zone_statistics
ClassifyField(g, w) ==
    /\ zpc = "idle"
    /\ ndvi_arg' = g
    /\ ndvi' = g
    /\ zone_weather' = w
    /\ stress_zones' = DetectStressZones(g, w)
    /\ zone_stats' = CalculateZoneStatistics(DetectStressZones(g, w), g)
    /\ NDVI_CRITICAL' = GlobalsAfterDetect(w)[1]
    /\ NDVI_HIGH_STRESS' = GlobalsAfterDetect(w)[2]
    /\ NDVI_MODERATE' = GlobalsAfterDetect(w)[3]
    /\ zpc' = "classified"
    /\ UNCHANGED <<stress_zones_again, zone_stats_again, rain_between>>

\* the same two calls made for another request; its results go to that request
ClassifyOther(g, w) ==
    /\ zpc \in {"classified", "between"}
    /\ NDVI_CRITICAL' = GlobalsAfterDetect(w)[1]
    /\ NDVI_HIGH_STRESS' = GlobalsAfterDetect(w)[2]
    /\ NDVI_MODERATE' = GlobalsAfterDetect(w)[3]
    /\ rain_between' = (rain_between \/ (w.given /\ w.has_rainfall /\ w.rainfall > 20))
    /\ zpc' = "between"
    /\ UNCHANGED <<ndvi, ndvi_arg, zone_weather, stress_zones, zone_stats,
                   stress_zones_again, zone_stats_again>>

\* the two calls again, on the same grid object and the same weather
ClassifyAgain ==
    /\ zpc \in {"classified", "between"}
    /\ stress_zones_again' = DetectStressZones(ndvi, zone_weather)
    /\ zone_stats_again' = CalculateZoneStatistics(DetectStressZones(ndvi, zone_weather), ndvi)
    /\ NDVI_CRITICAL' = GlobalsAfterDetect(zone_weather)[1]
    /\ NDVI_HIGH_STRESS' = GlobalsAfterDetect(zone_weather)[2]
    /\ NDVI_MODERATE' = GlobalsAfterDetect(zone_weather)[3]
    /\ zpc' = "repeated"
    /\ UNCHANGED <<ndvi, ndvi_arg, zone_weather, stress_zones, zone_stats, rain_between>>

\* ---------------------------------------------------------------------
\* Claims about the stress zone classifier
\* ---------------------------------------------------------------------

PercentageSum(stats) ==
    stats["Critical"].percentage.num + stats["High"].percentage.num
    + stats["Moderate"].percentage.num + stats["Healthy"].percentage.num

\* C5: for every grid and every rainfall value the ZoneMap has the shape of
\* the grid, every cell holds one of the four categories 0..3, and the four
\* percentages of calculate_zone_statistics sum to 100.
C5_ZonesPartitionGrid ==
    zpc # "idle" =>
        /\ DOMAIN stress_zones = DOMAIN ndvi_arg
        /\ \A r \in DOMAIN ndvi_arg : DOMAIN stress_zones[r] = DOMAIN ndvi_arg[r]
        /\ \A p \in Cells(stress_zones) : stress_zones[p[1]][p[2]] \in 0..3
        /\ \A n \in DOMAIN zone_stats :
             zone_stats[n].percentage.den = Cardinality(Cells(ndvi_arg))
        /\ PercentageSum(zone_stats) = 100 * Cardinality(Cells(ndvi_arg))

\* a two-cell grid classified after rainfall above 20 mm, its cells in different categories
C5_Witness ==
    /\ zpc = "classified"
    /\ Len(ndvi_arg[1]) = 2
    /\ zone_weather.has_rainfall
    /\ zone_weather.rainfall > 20
    /\ stress_zones[1][1] # stress_zones[1][2]
    /\ zone_stats["Healthy"].percentage = [num |-> 100, den |-> 2]

\* C9: the classifier run again on the same grid and the same rainfall
\* value, whatever calls were made in between, returns the same ZoneMap and
\* ZoneStatistics; the calls leave the grid and the module's thresholds as
\* they were.
C9_ClassifierIdempotent ==
    /\ zpc # "idle" => ndvi = ndvi_arg
    /\ configVars = <<300, 500, 600>>
    /\ zpc = "repeated" =>
         /\ stress_zones_again = stress_zones
         /\ zone_stats_again = zone_stats

\* a grid with a cell on the moderate/healthy border, classified without
\* rainfall adjustment, then again after another request's call with rainfall above 20 mm
C9_Witness ==
    /\ zpc = "repeated"
    /\ rain_between
    /\ ~zone_weather.given
    /\ \E p \in Cells(ndvi_arg) : ndvi_arg[p[1]][p[2]] = 599
    /\ \E p \in Cells(ndvi_arg) : ndvi_arg[p[1]][p[2]] = 600

Unadjusted(w) == ~(w.given /\ w.has_rainfall /\ w.rainfall > 20)

\* C10: without rainfall adjustment a cell v is CRITICAL iff v < 0.3, HIGH
\* iff 0.3 <= v < 0.5, MODERATE iff 0.5 <= v < 0.6 and HEALTHY iff v >= 0.6;
\* a grid uniformly 0.7 is all HEALTHY with Healthy 100% and the others 0%.
C10_DefaultBreakPoints ==
    (zpc # "idle" /\ Unadjusted(zone_weather)) =>
        /\ \A p \in Cells(ndvi_arg) :
             LET v == ndvi_arg[p[1]][p[2]]
                 z == stress_zones[p[1]][p[2]]
             IN  /\ z = 0 <=> v < 300
                 /\ z = 1 <=> (300 <= v /\ v < 500)
                 /\ z = 2 <=> (500 <= v /\ v < 600)
                 /\ z = 3 <=> v >= 600
        /\ (\A p \in Cells(ndvi_arg) : ndvi_arg[p[1]][p[2]] = 700) =>
             /\ \A p \in Cells(stress_zones) : stress_zones[p[1]][p[2]] = 3
             /\ zone_stats["Healthy"].percentage.num = 100 * zone_stats["Healthy"].percentage.den
             /\ \A n \in {"Critical", "High", "Moderate"} : zone_stats[n].percentage.num = 0

\* the scenario's grid, uniformly 0.7, classified and classified again
C10_Witness ==
    /\ zpc = "repeated"
    /\ ~zone_weather.given
    /\ ndvi_arg = <<<<700, 700>>>>
    /\ stress_zones = <<<<3, 3>>>>
    /\ zone_stats["Healthy"].percentage = [num |-> 200, den |-> 2]

\* the break points of the claims, in thousandths: 0.3*0.8, 0.5*0.85, 0.6*0.9
\* after rainfall above 20 mm, 0.3, 0.5, 0.6 otherwise
BreakPoints(w) == IF Unadjusted(w) THEN <<300, 500, 600>> ELSE <<240, 425, 540>>

\* the category of a value between break points, 0 Critical .. 3 Healthy
CategoryAt(v, t) == IF v < t[1] THEN 0 ELSE IF v < t[2] THEN 1 ELSE IF v < t[3] THEN 2 ELSE 3

\* C14: every call classifies with 0.24, 0.425, 0.54 exactly when its
\* rainfall is above 20 mm and with 0.3, 0.5, 0.6 when it is 20 mm or less
\* or absent, also when it follows calls with other rainfall.
C14_RainfallBreakPoints ==
    /\ zpc # "idle" =>
         \A p \in Cells(ndvi_arg) :
            stress_zones[p[1]][p[2]] = CategoryAt(ndvi_arg[p[1]][p[2]], BreakPoints(zone_weather))
    /\ zpc = "repeated" =>
         \A p \in Cells(ndvi_arg) :
            stress_zones_again[p[1]][p[2]] =
                CategoryAt(ndvi_arg[p[1]][p[2]], BreakPoints(zone_weather))

\* values on both sides of 0.54 classified with 21 mm of rainfall, before and
\* after a call of another request without rainfall
C14_Witness ==
    /\ zpc = "repeated"
    /\ zone_weather = [given |-> TRUE, has_rainfall |-> TRUE, rainfall |-> 21]
    /\ ~rain_between
    /\ ndvi_arg = <<<<540, 539>>>>
    /\ stress_zones = <<<<3, 2>>>>
    /\ stress_zones_again = <<<<3, 2>>>>

\* the weather of a call with 20 mm of rainfall
Rainfall20 == [given |-> TRUE, has_rainfall |-> TRUE, rainfall |-> 20]

\* C15 as stated: the category a value gets with rainfall above 20 mm is
\* never healthier than the one it gets with rainfall of 20 mm or less.
C15_RainNeverHealthier ==
    (zpc = "classified" /\ ~Unadjusted(zone_weather)) =>
        \A p \in Cells(ndvi_arg) :
            stress_zones[p[1]][p[2]] <= DetectStressZones(ndvi_arg, Rainfall20)[p[1]][p[2]]

\* C15, amended: the break points move down after rainfall above 20 mm, so
\* the category a value gets then is never less healthy than the one it gets
\* with rainfall of 20 mm or less.
C15_RainNeverLessHealthy ==
    (zpc = "classified" /\ ~Unadjusted(zone_weather)) =>
        \A p \in Cells(ndvi_arg) :
            stress_zones[p[1]][p[2]] >= DetectStressZones(ndvi_arg, Rainfall20)[p[1]][p[2]]

\* 0.54 is Healthy after 21 mm of rainfall and Moderate after 20 mm
C15_Witness ==
    /\ zpc = "classified"
    /\ zone_weather.rainfall = 21
    /\ ndvi_arg[1][1] = 540
    /\ stress_zones[1][1] = 3
    /\ DetectStressZones(ndvi_arg, Rainfall20)[1][1] = 2

\* =====================================================================
\* Crop profile table (crop_database.py)
\* =====================================================================

\* CropDatabase.CROPS; index ranges in thousandths, multiplier in tenths
CROPS ==
    [rice |-> [name |-> "Rice", optimal_min |-> 600, optimal_max |-> 850,
               water_need_mm_per_week |-> 50, price_per_quintal |-> 2000,
               typical_yield_quintal_per_ha |-> 45, water_multiplier10 |-> 15],
     wheat |-> [name |-> "Wheat", optimal_min |-> 550, optimal_max |-> 800,
                water_need_mm_per_week |-> 35, price_per_quintal |-> 2100,
                typical_yield_quintal_per_ha |-> 42, water_multiplier10 |-> 10],
     cotton |-> [name |-> "Cotton", optimal_min |-> 500, optimal_max |-> 750,
                 water_need_mm_per_week |-> 40, price_per_quintal |-> 6000,
                 typical_yield_quintal_per_ha |-> 25, water_multiplier10 |-> 12],
     sugarcane |-> [name |-> "Sugarcane", optimal_min |-> 650, optimal_max |-> 900,
                    water_need_mm_per_week |-> 55, price_per_quintal |-> 350,
                    typical_yield_quintal_per_ha |-> 700, water_multiplier10 |-> 16],
     maize |-> [name |-> "Maize", optimal_min |-> 550, optimal_max |-> 800,
                water_need_mm_per_week |-> 38, price_per_quintal |-> 1800,
                typical_yield_quintal_per_ha |-> 55, water_multiplier10 |-> 11],
     vegetables |-> [name |-> "Vegetables", optimal_min |-> 500, optimal_max |-> 750,
                     water_need_mm_per_week |-> 30, price_per_quintal |-> 2500,
                     typical_yield_quintal_per_ha |-> 200, water_multiplier10 |-> 9]]

\* the crop identifiers the requests carry
CropInputs == {"wheat", "WHEAT", "Rice", "barley", ""}

\* str.lower() and str.title() on those identifiers
Lower(c) ==
    CASE c = "WHEAT" -> "wheat"
      [] c = "Rice" -> "rice"
      [] OTHER -> c

Title(c) ==
    CASE c = "wheat" -> "Wheat"
      [] c = "WHEAT" -> "Wheat"
      [] c = "barley" -> "Barley"
      [] OTHER -> c

NoCrop == [name |-> "None"]

GetCrop_defaulting(crop_type) ==
    IF Lower(crop_type) \in DOMAIN CROPS THEN CROPS[Lower(crop_type)] ELSE CROPS["wheat"]

\* CropDatabase.get_crop: cls.CROPS.get(crop_type.lower())
GetCrop(crop_type) ==
    IF Lower(crop_type) \in DOMAIN CROPS THEN CROPS[Lower(crop_type)] ELSE NoCrop

\* CropDatabase.calculate_water_requirement for the stress levels the engine
\* passes; water_mm in tenths
StressMultiplier10(stress_level) ==
    CASE stress_level = "healthy" -> 8
      [] stress_level = "moderate" -> 10
      [] stress_level = "high" -> 13
      [] stress_level = "critical" -> 15
      [] OTHER -> 10

CalculateWaterRequirement(crop_type, area10, stress_level) ==
    LET crop == GetCrop(crop_type)
    IN  IF crop = NoCrop THEN [kind |-> "none"]
        ELSE LET required_mm10 == crop.water_need_mm_per_week * StressMultiplier10(stress_level)
             IN  [kind |-> "requirement",
                  water_mm10 |-> required_mm10,
                  liters_per_hectare |-> required_mm10 * 1000,
                  total_liters |-> (required_mm10 * 100 * area10),
                  stress_level |-> stress_level]

\* CropDatabase.assess_ndvi_for_crop, the status only
AssessNdviStatus(crop_type, ndvi_value) ==
    LET crop == GetCrop(crop_type)
    IN  IF crop = NoCrop THEN "unknown"
        ELSE IF ndvi_value < crop.optimal_min - 150 THEN "critical"
        ELSE IF ndvi_value < crop.optimal_min THEN "high"
        ELSE IF ndvi_value < crop.optimal_min + 50 THEN "moderate"
        ELSE IF ndvi_value <= crop.optimal_max THEN "healthy"
        ELSE "moderate"

\* CropDatabase.get_growth_stage_advice without days_after_planting
GrowthStageAdvice(crop_type) ==
    IF GetCrop(crop_type) = NoCrop THEN "No specific advice available"
    ELSE "Critical growth stages"

\* =====================================================================
\* Recommendation engine (recommendation_engine.py)
\* =====================================================================

VARIABLES
    rpc,               \* "idle", "done"
    rec_args,          \* the arguments of generate_recommendations
    recommendations,   \* the list it returned
    rec_failure        \* the failure it reported, "none" when it returned a list

recVars == <<rpc, rec_args, recommendations, rec_failure>>

\* zone_stats.get(name, {}).get('percentage', 0) on a mapping name -> percentage
Percentage(stats, name) == IF name \in DOMAIN stats THEN stats[name] ELSE 0

ZoneStats(c, h, m, he) ==
    [n \in {"Critical", "High", "Moderate", "Healthy"} |->
        CASE n = "Critical" -> c [] n = "High" -> h [] n = "Moderate" -> m [] OTHER -> he]

EmptyStats == [n \in {} |-> 0]

\* zone percentages on both sides of the rules' thresholds, and the empty mapping
RecZoneStats ==
    {EmptyStats} \cup
    {ZoneStats(c, h, 100 - c - h - he, he) : c \in {0, 10, 11}, h \in {0, 20, 21},
                                             he \in {0, 50, 51}}

\* stressed percentages of NW, NE, SW, SE; <<>> is the empty mapping
RecQuadrants ==
    {<<>>, <<0, 0, 0, 0>>, <<0, 20, 0, 20>>, <<0, 21, 0, 21>>, <<100, 0, 50, 25>>}

\* the deficit assessment: {} or status and deficit_mm in tenths
RecDeficits ==
    {[given |-> FALSE, status |-> "none", deficit_mm10 |-> 0],
     [given |-> TRUE, status |-> "Low", deficit_mm10 |-> 100],
     [given |-> TRUE, status |-> "Moderate", deficit_mm10 |-> 300],
     [given |-> TRUE, status |-> "High", deficit_mm10 |-> 455]}

RecNdviMeans == {450, 700}
RecCrops == {"wheat", "Rice", "barley"}
RecAreas10 == {10, 25}

NoRecArgs == [zone_stats |-> EmptyStats, quadrants |-> <<>>,
              deficit |-> [given |-> FALSE, status |-> "none", deficit_mm10 |-> 0],
              ndvi_mean |-> 0, crop_type |-> "", field_area10 |-> 0]

\* lines 22-23
CropName(crop_type) ==
    IF GetCrop(crop_type) # NoCrop THEN GetCrop(crop_type).name ELSE Title(crop_type)

\* lines 28-29 and 48-49: the water amount text, or the fixed text when the
\* crop is unknown
WaterAmount(crop_type, area10, stress_level, fallback) ==
    LET water_req == CalculateWaterRequirement(crop_type, area10, stress_level)
    IN  IF water_req.kind = "requirement"
        THEN [text |-> "mm (L/hectare)", water_mm10 |-> water_req.water_mm10,
              liters |-> water_req.liters_per_hectare]
        ELSE [text |-> fallback, water_mm10 |-> 0, liters |-> 0]

\* line 81: the population variance of the stressed percentages, times 16
Variance16(q) ==
    4 * SumSeq([i \in 1..Len(q) |-> q[i] * q[i]]) - SumSeq(q) * SumSeq(q)

\* lines 79-82: more than 100, for the four quadrants analyze_quadrants returns
UnevenDistribution(q) == Len(q) > 0 /\ Variance16(q) > 1600

\* the entry each rule appends, lines 25-110
CriticalRule(a) ==
    IF Percentage(a.zone_stats, "Critical") > 10
    THEN <<[priority |-> 1, urgency |-> "CRITICAL", zone |-> "Critical",
            action |-> <<"URGENT irrigation required for", CropName(a.crop_type)>>,
            reason |-> <<Percentage(a.zone_stats, "Critical"), "% of field in critical stress">>,
            water_amount |-> WaterAmount(a.crop_type, a.field_area10, "critical",
                                         "50-60% increase"),
            timing |-> "Within 24 hours", cost_impact |-> "High",
            growth_stage_note |-> GrowthStageAdvice(a.crop_type)]>>
    ELSE <<>>

HighRule(a) ==
    IF Percentage(a.zone_stats, "High") > 20
    THEN <<[priority |-> 2, urgency |-> "HIGH", zone |-> "High",
            action |-> <<"Increase irrigation for", CropName(a.crop_type)>>,
            reason |-> <<Percentage(a.zone_stats, "High"), "% of field in high stress">>,
            water_amount |-> WaterAmount(a.crop_type, a.field_area10, "high",
                                         "30-40% increase"),
            timing |-> "Within 48 hours", cost_impact |-> "Medium"]>>
    ELSE <<>>

DeficitRule(a) ==
    IF a.deficit.status = "High"
    THEN <<[priority |-> 3, urgency |-> "HIGH", zone |-> "Field-wide",
            action |-> <<"General irrigation increase for", CropName(a.crop_type)>>,
            reason |-> <<a.deficit.deficit_mm10, "Water deficit detected">>,
            water_amount |-> [text |-> "mm (L total)", water_mm10 |-> a.deficit.deficit_mm10,
                              liters |-> a.deficit.deficit_mm10 * 100 * a.field_area10],
            timing |-> "Within 72 hours", cost_impact |-> "High"]>>
    ELSE <<>>

UnevenRule(a) ==
    IF UnevenDistribution(a.quadrants)
    THEN <<[priority |-> 4, urgency |-> "MODERATE", zone |-> "Variable",
            action |-> <<"Check irrigation system", "">>,
            reason |-> <<0, "Uneven water distribution detected">>,
            water_amount |-> [text |-> "System check", water_mm10 |-> 0, liters |-> 0],
            timing |-> "Within 1 week", cost_impact |-> "Low"]>>
    ELSE <<>>

HealthyRule(a) ==
    IF Percentage(a.zone_stats, "Healthy") > 50 /\ a.deficit.status = "Low"
    THEN <<[priority |-> 5, urgency |-> "INFO", zone |-> "Field-wide",
            action |-> <<"Maintain current schedule for", CropName(a.crop_type)>>,
            reason |-> <<Percentage(a.zone_stats, "Healthy"), "% of field healthy">>,
            water_amount |-> [text |-> "No change", water_mm10 |-> 0, liters |-> 0],
            timing |-> "Continue monitoring", cost_impact |-> "None",
            ndvi_status |-> AssessNdviStatus(a.crop_type, a.ndvi_mean)]>>
    ELSE <<>>

RECURSIVE InsertDescending(_, _)
InsertDescending(sorted, x) ==
    IF sorted = <<>> THEN <<x>>
    ELSE IF Head(sorted).priority >= x.priority
         THEN <<Head(sorted)>> \o InsertDescending(Tail(sorted), x)
         ELSE <<x>> \o sorted

RECURSIVE SortByPriority_descending(_)
SortByPriority_descending(list) ==
    IF list = <<>> THEN <<>>
    ELSE InsertDescending(SortByPriority_descending(SubSeq(list, 1, Len(list) - 1)),
                          list[Len(list)])

\* the place of x in a list sorted by priority, after its equals
RECURSIVE InsertByPriority(_, _)
InsertByPriority(sorted, x) ==
    IF sorted = <<>> THEN <<x>>
    ELSE IF Head(sorted).priority <= x.priority
         THEN <<Head(sorted)>> \o InsertByPriority(Tail(sorted), x)
         ELSE <<x>> \o sorted

\* line 113: recommendations.sort(key=priority), a stable sort
RECURSIVE SortByPriority(_)
SortByPriority(list) ==
    IF list = <<>> THEN <<>>
    ELSE InsertByPriority(SortByPriority(SubSeq(list, 1, Len(list) - 1)), list[Len(list)])

GenerateRecommendations_firstmatch(a) ==
    LET appended == IF CriticalRule(a) # <<>> THEN CriticalRule(a)
                    ELSE IF HighRule(a) # <<>> THEN HighRule(a)
                    ELSE IF DeficitRule(a) # <<>> THEN DeficitRule(a)
                    ELSE IF UnevenRule(a) # <<>> THEN UnevenRule(a)
                    ELSE HealthyRule(a)
    IN  SortByPriority(appended)

\* generate_recommendations: the rules in order, the sort, the first 5
GenerateRecommendations(a) ==
    LET appended == CriticalRule(a) \o HighRule(a) \o DeficitRule(a) \o UnevenRule(a)
                    \o HealthyRule(a)
        sorted == SortByPriority(appended)
    IN  SubSeq(sorted, 1, Min(5, Len(sorted)))

\* lines 22-23, 29, 49 and crop_database.py line 205: an unknown crop takes
\* the fallback branches, no statement of generate_recommendations reports a
\* failure
RecFailure(a) == "none"

InitRec ==
    /\ rpc = "idle"
    /\ rec_args = NoRecArgs
    /\ recommendations = <<>>
    /\ rec_failure = "none"

\* app.py lines 223-226: one call of generate_recommendations
Recommend(a) ==
    /\ rpc = "idle"
    /\ rec_args' = a
    /\ recommendations' = GenerateRecommendations(a)
    /\ rec_failure' = RecFailure(a)
    /\ rpc' = "done"

\* ---------------------------------------------------------------------
\* Claims about the recommendation engine
\* ---------------------------------------------------------------------

\* C6: the list generate_recommendations returns has at most 5 entries and
\* its priorities never decrease from one entry to the next.
C6_RecommendationsCappedAndOrdered ==
    rpc = "done" =>
        /\ Len(recommendations) <= 5
        /\ \A i \in 1..Len(recommendations) : \A j \in i..Len(recommendations) :
             recommendations[i].priority <= recommendations[j].priority

\* four rules matched at once: critical, high, deficit and uneven distribution
C6_Witness ==
    /\ rpc = "done"
    /\ Len(recommendations) = 4
    /\ recommendations[1].priority = 1
    /\ recommendations[4].priority = 4

\* C16: for a crop identifier with no profile in the table,
\* generate_recommendations reports a failure and returns no recommendation
\* built from a substituted name, water amount or assessment.
C16_UnknownCropIsFailure ==
    (rpc = "done" /\ Lower(rec_args.crop_type) \notin DOMAIN CROPS) =>
        /\ rec_failure # "none"
        /\ recommendations = <<>>

\* the population variance of the values of q exceeds v (q not empty)
VarianceExceeds(q, v) ==
    /\ Len(q) > 0
    /\ Len(q) * SumSeq([i \in 1..Len(q) |-> q[i] * q[i]]) - SumSeq(q) * SumSeq(q)
         > v * Len(q) * Len(q)

\* the priorities present in a returned list
Priorities(list) == {list[i].priority : i \in 1..Len(list)}

\* C22: the returned list holds a recommendation of priority 1 iff
\* Critical% > 10, of priority 2 iff High% > 20, of priority 3 iff the
\* deficit status is High, of priority 4 iff the population variance of the
\* quadrants' stressed percentages exceeds 100, of priority 5 iff
\* Healthy% > 50 and the deficit status is Low; each priority occurs at most
\* once, 3 and 5 never together, and the list is empty when no rule matches.
C22_RulesIndependent ==
    rpc = "done" =>
        LET P == Priorities(recommendations)
            a == rec_args
        IN  /\ 1 \in P <=> Percentage(a.zone_stats, "Critical") > 10
            /\ 2 \in P <=> Percentage(a.zone_stats, "High") > 20
            /\ 3 \in P <=> a.deficit.status = "High"
            /\ 4 \in P <=> VarianceExceeds(a.quadrants, 100)
            /\ 5 \in P <=> (Percentage(a.zone_stats, "Healthy") > 50
                            /\ a.deficit.status = "Low")
            /\ P \subseteq 1..5
            /\ Cardinality(P) = Len(recommendations)
            /\ ~(3 \in P /\ 5 \in P)

\* critical, high, uneven and healthy rules matched in one call
C22_Witness ==
    /\ rpc = "done"
    /\ Priorities(recommendations) = {1, 2, 4, 5}
    /\ Len(recommendations) = 4


\* =====================================================================
\* ROI calculator (financial_calculator.py) and its endpoint (app.py)
\* =====================================================================
\* Amounts of money are carried as integers over the denominator Scale, areas
\* in tenths of a hectare, zone percentages as multiples of 5: every
\* intermediate value of calculate_roi is then an exact integer.  The code
\* computes the same values in binary floating point.

VARIABLES
    roi_pc,         \* "idle", "done"
    roi_request,    \* the fields of the request body
    roi_analysis,   \* what calculate_roi returned
    roi_response    \* what the endpoint answered

roiVars == <<roi_pc, roi_request, roi_analysis, roi_response>>

Scale == 2000

\* int(x) of x = n / d, d > 0: truncation toward zero
TruncDiv(n, d) == IF n >= 0 THEN n \div d ELSE -((-n) \div d)

\* round(x) of x = n / d, d > 0: to the nearest integer, ties to the even one
RoundHalfEven(n, d) ==
    LET q == n \div d
        r == n - q * d
    IN  IF 2 * r > d \/ (2 * r = d /\ q % 2 = 1) THEN q + 1 ELSE q

\* YIELD_IMPROVEMENT in percent
YIELD_IMPROVEMENT ==
    [critical_to_healthy |-> 15, high_to_healthy |-> 12, moderate_to_healthy |-> 8,
     maintain_healthy |-> 5]

\* lines 91-98: the tier of the yield improvement
YieldTier(critical_pct, high_pct, moderate_pct) ==
    IF critical_pct > 20 \/ high_pct > 30 THEN "critical_to_healthy"
    ELSE IF high_pct > 15 THEN "high_to_healthy"
    ELSE IF moderate_pct > 30 THEN "moderate_to_healthy"
    ELSE "maintain_healthy"

NoProjection == [kind |-> "none"]

ImplementationCost == 5000

\* lines 122 and 155: int(cost_saved + revenue_increase)
ReportedTotal(cost_saved_s, revenue_increase_s) ==
    TruncDiv(cost_saved_s + revenue_increase_s, Scale)

PaybackMonths10_nonzero(total_benefit_s) ==
    IF total_benefit_s # 0
    THEN RoundHalfEven(ImplementationCost * 4 * 10 * Scale,
                       IF total_benefit_s > 0 THEN total_benefit_s ELSE -total_benefit_s)
    ELSE 0

\* line 157: round(implementation_cost / total_benefit * 4, 1) in tenths, 0
\* when the benefit is not positive; total_benefit_s over Scale
PaybackMonths10(total_benefit_s) ==
    IF total_benefit_s > 0
    THEN RoundHalfEven(ImplementationCost * 4 * 10 * Scale, total_benefit_s)
    ELSE 0

\* FinancialCalculator.calculate_roi; area10 in tenths of a hectare
CalculateRoi(area10, crop_type, zone_stats_arg, rate, method, cycles) ==
    LET crop == GetCrop(crop_type)
    IN  IF crop = NoCrop THEN NoProjection
        ELSE
        LET need == crop.water_need_mm_per_week
            current_water_liters == need * crop.water_multiplier10 * 100 * area10 * cycles
            current_water_cost_s == current_water_liters * rate * (Scale \div 1000)
            healthy_pct == Percentage(zone_stats_arg, "Healthy")
            moderate_pct == Percentage(zone_stats_arg, "Moderate")
            high_pct == Percentage(zone_stats_arg, "High")
            critical_pct == Percentage(zone_stats_arg, "Critical")
            \* optimized_multiplier times 500
            optimized_multiplier500 ==
                healthy_pct * 4 + moderate_pct * 5 + high_pct * 6 + critical_pct * 7
            optimized_water_liters == need * optimized_multiplier500 * 2 * area10 * cycles
            \* a common factor of both water volumes
            liters_unit == need * 2 * area10 * cycles
            optimized_water_cost_s == optimized_water_liters * rate * (Scale \div 1000)
            water_saved_liters == current_water_liters - optimized_water_liters
            cost_saved_s == current_water_cost_s - optimized_water_cost_s
            \* avg_stress_score times 1000
            avg_stress_score1000 == high_pct * 3 + moderate_pct * 6 + healthy_pct * 10
            \* yield_improvement_pct times 100000
            yield_improvement100000 ==
                YIELD_IMPROVEMENT[YieldTier(critical_pct, high_pct, moderate_pct)]
                    * (1000 - avg_stress_score1000)
            yield10 == crop.typical_yield_quintal_per_ha * area10
            price == crop.price_per_quintal
            revenue_increase_s ==
                ((crop.typical_yield_quintal_per_ha * price) \div 100) * area10
                    * (yield_improvement100000 \div 5)
            current_revenue_s == yield10 * price * (Scale \div 10)
            current_profit_s == current_revenue_s - current_water_cost_s
            optimized_revenue_s == current_revenue_s + revenue_increase_s
            optimized_profit_s == optimized_revenue_s - optimized_water_cost_s
            total_benefit_s == cost_saved_s + revenue_increase_s
        IN  [kind |-> "projection",
             current_scenario |->
                [water_usage_liters |-> current_water_liters,
                 water_cost |-> TruncDiv(current_water_cost_s, Scale),
                 yield_quintal10 |-> yield10,
                 revenue |-> TruncDiv(current_revenue_s, Scale),
                 profit |-> TruncDiv(current_profit_s, Scale)],
             optimized_scenario |->
                [water_usage_liters |-> optimized_water_liters,
                 water_cost |-> TruncDiv(optimized_water_cost_s, Scale),
                 yield_quintal10 |->
                    RoundHalfEven(yield10 * (100000 + yield_improvement100000), 100000),
                 revenue |-> TruncDiv(optimized_revenue_s, Scale),
                 profit |-> TruncDiv(optimized_profit_s, Scale)],
             savings |->
                [water_saved_liters |-> water_saved_liters,
                 water_saved_percentage10 |->
                    IF current_water_liters > 0
                    THEN RoundHalfEven((water_saved_liters \div liters_unit) * 1000,
                                       current_water_liters \div liters_unit)
                    ELSE 0,
                 cost_saved |-> TruncDiv(cost_saved_s, Scale),
                 yield_improvement_percentage10 |-> RoundHalfEven(yield_improvement100000, 100),
                 yield_increase_quintal10 |->
                    RoundHalfEven(yield10 * (yield_improvement100000 \div 5), 20000),
                 revenue_increase |-> TruncDiv(revenue_increase_s, Scale),
                 total_season_benefit |-> ReportedTotal(cost_saved_s, revenue_increase_s)],
             roi |->
                [implementation_cost |-> ImplementationCost,
                 total_benefit |-> ReportedTotal(cost_saved_s, revenue_increase_s),
                 roi_percentage10 |->
                    RoundHalfEven(total_benefit_s, (Scale * ImplementationCost) \div 1000),
                 payback_months10 |-> PaybackMonths10(total_benefit_s)],
             inputs |->
                [field_area_ha10 |-> area10, crop_type |-> crop_type, crop_name |-> crop.name,
                 water_rate_per_1000l |-> rate, irrigation_method |-> method,
                 irrigation_cycles |-> cycles]]

\* the request bodies: areas in tenths of a hectare, rates, cycle counts
RoiAreas10 == {0, 3, 10}
RoiRates == {0, 50}
RoiCycles == {0, 10}
RoiMethods == {"flood"}

\* zone distributions <<Critical, High, Moderate, Healthy>> on both sides of
\* the tier thresholds of lines 91-98; on these requests the floating-point
\* arithmetic of the code reports the figures of the exact arithmetic
RoiDistributions ==
    {<<0, 0, 0, 100>>, <<0, 10, 90, 0>>, <<20, 10, 30, 40>>, <<20, 0, 20, 60>>,
     <<25, 10, 30, 35>>, <<25, 5, 10, 60>>, <<0, 30, 55, 15>>, <<0, 30, 70, 0>>,
     <<0, 35, 50, 15>>, <<0, 35, 55, 10>>, <<15, 15, 30, 40>>, <<0, 15, 0, 85>>,
     <<5, 20, 60, 15>>, <<10, 20, 45, 25>>, <<10, 5, 30, 55>>, <<15, 15, 35, 35>>,
     <<0, 5, 35, 60>>, <<10, 0, 80, 10>>, <<15, 0, 70, 15>>, <<0, 25, 65, 10>>}

\* the zone_stats of a request: the empty mapping or one of the distributions
RoiZoneStats ==
    {EmptyStats} \cup {ZoneStats(t[1], t[2], t[3], t[4]) : t \in RoiDistributions}

NoRequest == [field_area_ha10 |-> 0, crop_type |-> "", zone_stats |-> EmptyStats,
              water_rate_per_1000l |-> 0, irrigation_method |-> "", irrigation_cycles |-> 0]

NoResponse == [status |-> 0, error |-> "", body |-> NoProjection]

InitRoi ==
    /\ roi_pc = "idle"
    /\ roi_request = NoRequest
    /\ roi_analysis = NoProjection
    /\ roi_response = NoResponse

\* app.py calculate_roi, lines 388-410
RoiEndpoint(data) ==
    /\ roi_pc = "idle"
    /\ roi_request' = data
    /\ LET analysis == CalculateRoi(data.field_area_ha10, data.crop_type, data.zone_stats,
                                    data.water_rate_per_1000l, data.irrigation_method,
                                    data.irrigation_cycles)
       IN  /\ roi_analysis' = analysis
           /\ roi_response' =
                IF analysis = NoProjection
                THEN [status |-> 400, error |-> "Invalid crop type", body |-> NoProjection]
                ELSE [status |-> 200, error |-> "", body |-> analysis]
    /\ roi_pc' = "done"

\* ---------------------------------------------------------------------
\* Claims about the ROI calculator
\* ---------------------------------------------------------------------

\* C7: in every projection the reported total benefit is the reported
\* cost_saved plus the reported revenue_increase, and the reported
\* roi_percentage is the reported total benefit over the reported
\* implementation cost, times 100 (roi_percentage10 is in tenths).
C7_ReportedTotalsAddUp ==
    (roi_pc = "done" /\ roi_analysis.kind = "projection") =>
        /\ roi_analysis.roi.total_benefit =
              roi_analysis.savings.cost_saved + roi_analysis.savings.revenue_increase
        /\ roi_analysis.roi.roi_percentage10 * roi_analysis.roi.implementation_cost =
              roi_analysis.roi.total_benefit * 100 * 10

\* C8 as stated: a crop identifier that is not a key of the crop profile
\* table gets no projection and the endpoint answers 'Invalid crop type'.
C8_UnknownCropAsStated ==
    (roi_pc = "done" /\ roi_request.crop_type \notin DOMAIN CROPS) =>
        /\ roi_analysis = NoProjection
        /\ roi_response.status = 400
        /\ roi_response.error = "Invalid crop type"

\* C8, amended: a crop identifier whose lower-cased form is not a key of the
\* crop profile table gets no projection, no ROI figure is computed, and the
\* endpoint answers 400 'Invalid crop type'.
C8_UnknownCropRejected ==
    (roi_pc = "done" /\ Lower(roi_request.crop_type) \notin DOMAIN CROPS) =>
        /\ roi_analysis = NoProjection
        /\ roi_response = [status |-> 400, error |-> "Invalid crop type",
                           body |-> NoProjection]

\* the endpoint has answered a request for "barley"
C8_Witness ==
    /\ roi_pc = "done"
    /\ roi_request.crop_type = "barley"
    /\ roi_request.field_area_ha10 = 10
    /\ roi_request.irrigation_cycles = 10
    /\ roi_response.status = 400

\* lines 50-51: the current water volume of a request, in liters
CurrentWaterLiters(data) ==
    LET crop == GetCrop(data.crop_type)
    IN  crop.water_need_mm_per_week * crop.water_multiplier10 * 100
            * data.field_area_ha10 * data.irrigation_cycles

\* lines 65-79: current_water_cost - optimized_water_cost, over Scale
CostSaved(data) ==
    LET crop == GetCrop(data.crop_type)
        optimized500 == Percentage(data.zone_stats, "Healthy") * 4
                          + Percentage(data.zone_stats, "Moderate") * 5
                          + Percentage(data.zone_stats, "High") * 6
                          + Percentage(data.zone_stats, "Critical") * 7
        optimized_liters == crop.water_need_mm_per_week * optimized500 * 2
                               * data.field_area_ha10 * data.irrigation_cycles
    IN  (CurrentWaterLiters(data) - optimized_liters) * data.water_rate_per_1000l
            * (Scale \div 1000)

\* lines 83-109: yield_increase_quintal * price_per_quintal, over Scale
RevenueIncrease(data) ==
    LET crop == GetCrop(data.crop_type)
        critical_pct == Percentage(data.zone_stats, "Critical")
        high_pct == Percentage(data.zone_stats, "High")
        moderate_pct == Percentage(data.zone_stats, "Moderate")
        healthy_pct == Percentage(data.zone_stats, "Healthy")
        improvement100000 ==
            YIELD_IMPROVEMENT[YieldTier(critical_pct, high_pct, moderate_pct)]
                * (1000 - (high_pct * 3 + moderate_pct * 6 + healthy_pct * 10))
    IN  ((crop.typical_yield_quintal_per_ha * crop.price_per_quintal) \div 100)
            * data.field_area_ha10 * (improvement100000 \div 5)

\* C25: for every known crop, area, cycle count, rate >= 0 and zone
\* statistics (the empty mapping too) calculate_roi returns a projection:
\* payback_months is 0 when the total benefit is <= 0 and
\* implementation_cost / total_benefit * 4 (to one decimal) otherwise, and
\* water_saved_percentage is 0 when the current water volume is 0.
C25_RoiTotal ==
    (roi_pc = "done" /\ GetCrop(roi_request.crop_type) # NoCrop) =>
        LET total_benefit_s == CostSaved(roi_request) + RevenueIncrease(roi_request)
        IN  /\ roi_analysis.kind = "projection"
            /\ roi_response.status = 200
            /\ roi_analysis.roi.total_benefit = TruncDiv(total_benefit_s, Scale)
            /\ roi_analysis.roi.payback_months10 =
                 IF total_benefit_s <= 0 THEN 0
                 ELSE RoundHalfEven(ImplementationCost * 4 * 10 * Scale, total_benefit_s)
            /\ CurrentWaterLiters(roi_request) = 0 =>
                 roi_analysis.savings.water_saved_percentage10 = 0

\* a projection with a negative total benefit
C25_Witness ==
    /\ roi_pc = "done"
    /\ roi_analysis.kind = "projection"
    /\ roi_analysis.roi.total_benefit < 0
    /\ roi_analysis.roi.payback_months10 = 0
    /\ roi_request.field_area_ha10 > 0

\* the arguments of generate_recommendations for the field of an ROI request
RecArgsOf(data) ==
    [zone_stats |-> data.zone_stats, quadrants |-> <<>>,
     deficit |-> [given |-> FALSE, status |-> "none", deficit_mm10 |-> 0],
     ndvi_mean |-> 450, crop_type |-> data.crop_type,
     field_area10 |-> data.field_area_ha10]

\* C26: for every zone distribution calculate_roi selects a critical- or
\* high-stress tier exactly when generate_recommendations emits the
\* priority-1 or the priority-2 recommendation (Critical% > 10, High% > 20).
C26_TierThresholdsMirrorRules ==
    (roi_pc = "done" /\ roi_analysis.kind = "projection") =>
        LET zs == roi_request.zone_stats
            tier == YieldTier(Percentage(zs, "Critical"), Percentage(zs, "High"),
                              Percentage(zs, "Moderate"))
            P == Priorities(GenerateRecommendations(RecArgsOf(roi_request)))
        IN  tier \in {"critical_to_healthy", "high_to_healthy"}
                <=> (1 \in P \/ 2 \in P)

\* =====================================================================
\* Water deficit estimator (weather_service.py)
\* =====================================================================
\* Depths of water are integers in thousandths of a millimetre; the
\* stress-adjusted deficit is an integer over the denominator DeficitDen.

VARIABLES
    wpc,             \* "idle", "done"
    deficit_args,    \* weather, rainfall, ndvi_mean and zone_stats of the call
    water_deficit    \* what assess_water_deficit returned

deficitVars == <<wpc, deficit_args, water_deficit>>

\* the weather of get_current_weather: a temperature in whole degrees, or a
\* mapping without the 'temperature' key
DeficitWeathers ==
    {[has_temperature |-> FALSE, temperature |-> 0],
     [has_temperature |-> TRUE, temperature |-> -4],
     [has_temperature |-> TRUE, temperature |-> 0],
     [has_temperature |-> TRUE, temperature |-> 25],
     [has_temperature |-> TRUE, temperature |-> 100]}

\* math.sqrt on the temperatures above
Sqrt(t) == CHOOSE r \in 0..t : r * r = t

\* WeatherService.calculate_et0, thousandths of a millimetre per day:
\* 0.0023 * (T + 17.8) * sqrt(T) * 5, floored at 0, and the default 5.0 when
\* the key is missing or sqrt raises on a negative temperature
CalculateEt0(weather) ==
    IF ~weather.has_temperature \/ weather.temperature < 0 THEN 5000
    ELSE Max(0, (23 * (weather.temperature * 10 + 178) * Sqrt(weather.temperature)) \div 20)

\* estimate_rainfall draws from uniform(0, 50); thousandths of a millimetre
DeficitRainfalls == {0, 5000, 9970, 10000, 25000, 50000}

\* ndvi_mean: None (-1) or a mean index in thousandths
NoNdviMean == -1
DeficitNdviMeans == {NoNdviMean, 250, 299, 300, 499, 500, 700}

\* zone_stats: None, the empty mapping, or percentages
NoZoneStats == [given |-> FALSE, stats |-> EmptyStats]
DeficitZoneStats ==
    {NoZoneStats, [given |-> TRUE, stats |-> EmptyStats]} \cup
    {[given |-> TRUE, stats |-> ZoneStats(t[1], t[2], t[3], t[4])] :
        t \in {<<0, 0, 0, 100>>, <<100, 0, 0, 0>>, <<0, 100, 0, 0>>, <<0, 0, 100, 0>>,
               <<25, 25, 25, 25>>, <<10, 20, 30, 40>>}}

DeficitDen == 2000000

\* lines 126-131: stress_factor times 200, for percentages that are multiples of 5
StressFactor200(stats) ==
    200 + (8 * Percentage(stats, "Critical") + 5 * Percentage(stats, "High")
           + 2 * Percentage(stats, "Moderate")) \div 5

\* lines 135-138: the factor for a low mean index, times 10
LowNdviFactor10(ndvi_mean) ==
    IF ndvi_mean < 300 THEN 15 ELSE IF ndvi_mean < 500 THEN 12 ELSE 10

\* lines 121-140: the deficit before the floor, over DeficitDen
AdjustedDeficit(et0_weekly, rainfall, ndvi_mean, zone_stats_arg) ==
    LET base_deficit == et0_weekly - rainfall
    IN  IF ndvi_mean # NoNdviMean /\ zone_stats_arg.given
        THEN base_deficit * StressFactor200(zone_stats_arg.stats) * LowNdviFactor10(ndvi_mean)
        ELSE base_deficit * 200 * 10

FlooredDeficit_unfloored(deficit) == deficit

\* line 143: max(deficit, 10.0)
FlooredDeficit(deficit) == Max(deficit, 10 * DeficitDen)

\* lines 146-151
DeficitStatus(deficit) ==
    IF deficit > 40 * DeficitDen THEN "High"
    ELSE IF deficit > 25 * DeficitDen THEN "Moderate"
    ELSE "Low"

\* WeatherService.assess_water_deficit, lines 116-158; the reported depths
\* are rounded to tenths of a millimetre
AssessWaterDeficit(weather, rainfall, ndvi_mean, zone_stats_arg) ==
    LET et0_daily == CalculateEt0(weather)
        et0_weekly == et0_daily * 7
        deficit == FlooredDeficit(AdjustedDeficit(et0_weekly, rainfall, ndvi_mean,
                                                  zone_stats_arg))
    IN  [deficit_mm10 |-> RoundHalfEven(deficit, DeficitDen \div 10),
         status |-> DeficitStatus(deficit),
         et0_weekly10 |-> RoundHalfEven(et0_weekly, 100),
         rainfall10 |-> RoundHalfEven(rainfall, 100)]

NoDeficitArgs == [weather |-> [has_temperature |-> FALSE, temperature |-> 0], et0_daily |-> 0,
                  rainfall |-> 0, ndvi_mean |-> NoNdviMean, zone_stats |-> NoZoneStats]

NoDeficit == [deficit_mm10 |-> 0, status |-> "none", et0_weekly10 |-> 0, rainfall10 |-> 0]

InitDeficit ==
    /\ wpc = "idle"
    /\ deficit_args = NoDeficitArgs
    /\ water_deficit = NoDeficit

\* one call of assess_water_deficit (app.py lines 216-218)
AssessDeficit(weather, rainfall, ndvi_mean, zone_stats_arg) ==
    /\ wpc = "idle"
    /\ deficit_args' = [weather |-> weather, et0_daily |-> CalculateEt0(weather),
                        rainfall |-> rainfall, ndvi_mean |-> ndvi_mean,
                        zone_stats |-> zone_stats_arg]
    /\ water_deficit' = AssessWaterDeficit(weather, rainfall, ndvi_mean, zone_stats_arg)
    /\ wpc' = "done"

\* ---------------------------------------------------------------------
\* Claims about the water deficit estimator
\* ---------------------------------------------------------------------

\* C11: a weekly deficit of exactly 25 mm (daily ET0 5 mm, rainfall 10 mm,
\* no zone statistics) is labelled "Moderate".
C11_DeficitOf25IsModerate ==
    (wpc = "done" /\ deficit_args.et0_daily = 5000 /\ deficit_args.rainfall = 10000
        /\ ~deficit_args.zone_stats.given) =>
        water_deficit.status = "Moderate"

\* C13: for every ET0, rainfall, mean index and zone statistics the reported
\* deficit is at least 10 mm.
C13_DeficitFloor ==
    wpc = "done" => water_deficit.deficit_mm10 >= 100

\* rainfall above the weekly evapotranspiration, scaled by the stress factors
C13_Witness ==
    /\ wpc = "done"
    /\ deficit_args.rainfall > 7 * deficit_args.et0_daily
    /\ deficit_args.zone_stats.given
    /\ Percentage(deficit_args.zone_stats.stats, "Critical") = 100
    /\ deficit_args.ndvi_mean = 250
    /\ water_deficit.deficit_mm10 = 100
    /\ water_deficit.status = "Low"

\* C23: in every assessment the label agrees with the reported deficit:
\* High iff deficit_mm > 40, Moderate iff 25 < deficit_mm <= 40, Low iff
\* deficit_mm <= 25.
C23_LabelAgreesWithReported ==
    wpc = "done" =>
        /\ water_deficit.status = "High" <=> water_deficit.deficit_mm10 > 400
        /\ water_deficit.status = "Moderate" <=>
             (water_deficit.deficit_mm10 > 250 /\ water_deficit.deficit_mm10 <= 400)
        /\ water_deficit.status = "Low" <=> water_deficit.deficit_mm10 <= 250

\* the deficit before the floor when each scaling depends on its own
\* argument only, over DeficitDen
SeparatelyScaledDeficit(et0_weekly, rainfall, ndvi_mean, zone_stats_arg) ==
    (et0_weekly - rainfall)
      * (IF zone_stats_arg.given THEN StressFactor200(zone_stats_arg.stats) ELSE 200)
      * (IF ndvi_mean # NoNdviMean THEN LowNdviFactor10(ndvi_mean) ELSE 10)

\* C24: the base deficit is scaled by the stress factor whenever zone
\* statistics are supplied, with or without a mean index, and by 1.5 or 1.2
\* whenever a mean index below 0.3 or 0.5 is supplied, with or without zone
\* statistics; with both supplied the two scalings compound.
C24_ScalingsIndependent ==
    wpc = "done" =>
        water_deficit.deficit_mm10 =
            RoundHalfEven(FlooredDeficit(SeparatelyScaledDeficit(
                              7 * deficit_args.et0_daily, deficit_args.rainfall,
                              deficit_args.ndvi_mean, deficit_args.zone_stats)),
                          DeficitDen \div 10)

\* =====================================================================
\* Vegetation index (ndvi_processor.py)
\* =====================================================================
\* Band values are integers; an index value is an exact fraction
\* [num, den] with den > 0.

VARIABLES
    npc,        \* "idle", "done"
    red_arg,    \* the red band passed to calculate_ndvi
    nir_arg,    \* the near-infrared band passed to calculate_ndvi
    red,        \* the caller's red band after the call
    nir,        \* the caller's near-infrared band after the call
    ndvi_out    \* the grid calculate_ndvi returned

ndviVars == <<npc, red_arg, nir_arg, red, nir, ndvi_out>>

\* band values, among them pairs whose sum is zero and pairs whose quotient
\* leaves [-1, 1]
BandValues == {-2, 0, 1, 2}

BandGrids ==
    UNION {{Alternating(r, c, a, b) : a \in BandValues, b \in BandValues} :
              r \in 1..MaxRows, c \in 1..MaxCols}

\* line 23: nir + red, a new array
BandSum(r, n) == [i \in DOMAIN n |-> [j \in DOMAIN n[i] |-> n[i][j] + r[i][j]]]

\* line 24: denominator[denominator == 0] = 1
ZeroToOne(denominator) ==
    [i \in DOMAIN denominator |->
        [j \in DOMAIN denominator[i] |->
            IF denominator[i][j] = 0 THEN 1 ELSE denominator[i][j]]]

\* a quotient of two integers as a fraction with a positive denominator
Quotient(n, d) == IF d < 0 THEN [num |-> -n, den |-> -d] ELSE [num |-> n, den |-> d]

\* line 27: (nir - red) / denominator, cell by cell
BandQuotient(r, n, denominator) ==
    [i \in DOMAIN n |->
        [j \in DOMAIN n[i] |-> Quotient(n[i][j] - r[i][j], denominator[i][j])]]

Clip_unclipped(q) == q

\* np.clip(x, -1, 1) of one value
Clip(q) ==
    IF q.num > q.den THEN [num |-> 1, den |-> 1]
    ELSE IF q.num < -q.den THEN [num |-> -1, den |-> 1]
    ELSE q

\* NDVIProcessor.calculate_ndvi, lines 23-32
CalculateNdvi(r, n) ==
    LET denominator == ZeroToOne(BandSum(r, n))
        quotient == BandQuotient(r, n, denominator)
    IN  [i \in DOMAIN quotient |-> [j \in DOMAIN quotient[i] |-> Clip(quotient[i][j])]]

\* the caller's bands after the call: line 23 allocates the denominator, the
\* assignment of line 24 writes to that array only
BandsAfterCalculate(r, n) == <<r, n>>

NoGrid == <<>>

InitNdvi ==
    /\ npc = "idle"
    /\ red_arg = NoGrid
    /\ nir_arg = NoGrid
    /\ red = NoGrid
    /\ nir = NoGrid
    /\ ndvi_out = NoGrid

\* app.py line 201: one call of calculate_ndvi on two bands of one shape
ComputeNdvi(r, n) ==
    /\ npc = "idle"
    /\ red_arg' = r
    /\ nir_arg' = n
    /\ ndvi_out' = CalculateNdvi(r, n)
    /\ red' = BandsAfterCalculate(r, n)[1]
    /\ nir' = BandsAfterCalculate(r, n)[2]
    /\ npc' = "done"

\* ---------------------------------------------------------------------
\* Claims about the vegetation index
\* ---------------------------------------------------------------------

FractionEq(a, b) == a.num * b.den = b.num * a.den

\* C12: every cell of the returned grid lies in [-1, 1]; a cell whose
\* nir + red is zero is nir - red over 1, clipped; every other cell is
\* (nir - red) / (nir + red), clipped, whatever the other cells hold; the
\* bands passed in are unchanged.
C12_NdviInRange ==
    npc = "done" =>
        /\ DOMAIN ndvi_out = DOMAIN nir_arg
        /\ \A p \in Cells(nir_arg) :
             LET v == ndvi_out[p[1]][p[2]]
                 n == nir_arg[p[1]][p[2]]
                 r == red_arg[p[1]][p[2]]
             IN  /\ v.den > 0
                 /\ -v.den <= v.num /\ v.num <= v.den
                 /\ (n + r = 0) => FractionEq(v, Clip(Quotient(n - r, 1)))
                 /\ (n + r # 0) => FractionEq(v, Clip(Quotient(n - r, n + r)))
        /\ red = red_arg
        /\ nir = nir_arg

\* one cell with a zero sum whose quotient is clipped, next to a cell with a
\* non-zero sum inside the range
C12_Witness ==
    /\ npc = "done"
    /\ Len(nir_arg[1]) = 2
    /\ nir_arg[1][1] = 2 /\ red_arg[1][1] = -2
    /\ nir_arg[1][2] = 2 /\ red_arg[1][2] = 1
    /\ ndvi_out[1][1] = [num |-> 1, den |-> 1]
    /\ ndvi_out[1][2] = [num |-> 1, den |-> 3]

\* =====================================================================
\* A second predictor reading the artifact (stress_predictor.py)
\* =====================================================================
\* Another process that constructs StressPredictor on the same model_path
\* (initialize_model, a second worker importing app.py) while the training
\* thread of the first may be in save_model.

VARIABLES
    lpc,                 \* "idle", "done"
    loader_model,        \* self.model of the second predictor
    loader_importance,   \* its self.feature_importance
    loader_observed      \* history: the artifact as it was when load_model read it

loaderVars == <<lpc, loader_model, loader_importance, loader_observed>>

InitLoader ==
    /\ lpc = "idle"
    /\ loader_model = NoModel
    /\ loader_importance = 0
    /\ loader_observed = NoArtifact

\* __init__, lines 24-30, and load_model, lines 304-313: both fields are
\* None unless the file exists and pickle.load succeeds; an empty or
\* partly written file raises inside load_model, which prints and returns
LoaderConstruct ==
    /\ lpc = "idle"
    /\ loader_observed' = artifact
    /\ loader_model' = LoadedModel(artifact)
    /\ loader_importance' = LoadedImportance(artifact)
    /\ lpc' = "done"

\* the second process goes away; another one may come
LoaderExit ==
    /\ lpc = "done"
    /\ lpc' = "idle"
    /\ loader_model' = NoModel
    /\ loader_importance' = 0
    /\ loader_observed' = NoArtifact

\* ---------------------------------------------------------------------
\* Claims about the persisted artifact
\* ---------------------------------------------------------------------

\* C27: a predictor that loads the artifact at any moment relative to a
\* concurrent save_model finds no artifact, the complete previous one or the
\* complete new one, never a partly written one, and the model and the
\* importances it loads belong to the same training run.
C27_ArtifactAtomic ==
    lpc = "done" =>
        /\ loader_observed.state # "partial"
        /\ loader_model.id # 0 => loader_importance = loader_model.id

\* =====================================================================
\* Sample bands and the global NumPy random state (satellite_fetch.py)
\* =====================================================================
\* The state of np.random is one stream shared by every thread of the
\* process: [seed, pos] is the stream chosen by the last np.random.seed and
\* the number of draws made from it since.  Each np.random call is atomic.

VARIABLES
    rng,             \* the global random state
    spc,             \* position of the request in load_sample_data
    sample_crop,     \* its crop_type
    sample_red,      \* red_base of the call in progress
    sample_nir,      \* nir_base of the call in progress
    sample_calls,    \* calls of load_sample_data started for the field
    sample_first,    \* history: crop -> the bands the first call returned
    opc,             \* position of another thread using np.random
    other_draws      \* draws it has made since it seeded

sampleVars == <<rng, spc, sample_crop, sample_red, sample_nir, sample_calls,
                sample_first, opc, other_draws>>

MaxSampleCalls == 2
MaxOtherDraws == 2

\* hash(str(field_boundary)) % 100000 of the one field under observation
LocationSeed == 1

\* the seeds of the other users of np.random: np.random.seed(42) in
\* generate_synthetic_data (stress_predictor.py line 42), the seed of
\* farm_search (app.py lines 483-484) or of load_sample_data for another field
OtherSeeds == {42, 2}

\* np.random.seed(None): a seed from the operating system's entropy
FreshSeeds == {90, 91}

\* the n-th number of the stream of a seed
StreamValue(state) == state.seed * 10 + state.pos

\* lines 139-148: red_range and nir_range of the crop, wheat for unknown crops
CropProfile(crop_type) ==
    IF crop_type = "rice" THEN [red_range |-> <<90, 140>>, nir_range |-> <<200, 250>>]
    ELSE [red_range |-> <<100, 160>>, nir_range |-> <<180, 240>>]

SampleCrops == {"rice", "wheat"}

\* np.random.uniform(lo, hi) on the current state
Uniform(range, state) == range[1] + (StreamValue(state) % (range[2] - range[1]))

Advance(state) == [state EXCEPT !.pos = state.pos + 1]

NoBands == <<0, 0>>

InitSample ==
    /\ rng = [seed |-> 90, pos |-> 0]
    /\ spc = "idle"
    /\ sample_crop = ""
    /\ sample_red = 0
    /\ sample_nir = 0
    /\ sample_calls = 0
    /\ sample_first = [c \in SampleCrops |-> NoBands]
    /\ opc = "idle"
    /\ other_draws = 0

\* lines 130-136: np.random.seed(location_seed) for a given boundary
SampleSeed(crop_type) ==
    /\ spc = "idle"
    /\ sample_calls < MaxSampleCalls
    /\ sample_calls' = sample_calls + 1
    /\ sample_crop' = crop_type
    /\ rng' = [seed |-> LocationSeed, pos |-> 0]
    /\ spc' = "seeded"
    /\ UNCHANGED <<sample_red, sample_nir, sample_first, opc, other_draws>>

\* line 154: red_base = np.random.uniform(red_range)
SampleRed ==
    /\ spc = "seeded"
    /\ sample_red' = Uniform(CropProfile(sample_crop).red_range, rng)
    /\ rng' = Advance(rng)
    /\ spc' = "red"
    /\ UNCHANGED <<sample_crop, sample_nir, sample_calls, sample_first, opc, other_draws>>

\* line 155: nir_base = np.random.uniform(nir_range); the draws of lines
\* 158-186 follow in the same way
SampleNir ==
    /\ spc = "red"
    /\ sample_nir' = Uniform(CropProfile(sample_crop).nir_range, rng)
    /\ rng' = Advance(rng)
    /\ spc' = "nir"
    /\ UNCHANGED <<sample_crop, sample_red, sample_calls, sample_first, opc, other_draws>>

\* lines 189-196: np.random.seed(None) and return red, nir
SampleReturn ==
    /\ spc = "nir"
    /\ \E s \in FreshSeeds : rng' = [seed |-> s, pos |-> 0]
    /\ sample_first' = IF sample_first[sample_crop] = NoBands
                       THEN [sample_first EXCEPT ![sample_crop] = <<sample_red, sample_nir>>]
                       ELSE sample_first
    /\ spc' = "done"
    /\ UNCHANGED <<sample_crop, sample_red, sample_nir, sample_calls, opc, other_draws>>

\* the request is answered
SampleDone ==
    /\ spc = "done"
    /\ spc' = "idle"
    /\ sample_red' = 0
    /\ sample_nir' = 0
    /\ UNCHANGED <<rng, sample_crop, sample_calls, sample_first, opc, other_draws>>

\* another thread calls np.random.seed: the training job, farm_search or
\* load_sample_data for another field
OtherSeed ==
    /\ opc = "idle"
    /\ \E s \in OtherSeeds : rng' = [seed |-> s, pos |-> 0]
    /\ other_draws' = 0
    /\ opc' = "drawing"
    /\ UNCHANGED <<spc, sample_crop, sample_red, sample_nir, sample_calls, sample_first>>

\* and draws from the global state (stress_predictor.py lines 51-82,
\* app.py line 496)
OtherDraw ==
    /\ opc = "drawing"
    /\ other_draws < MaxOtherDraws
    /\ rng' = Advance(rng)
    /\ other_draws' = other_draws + 1
    /\ UNCHANGED <<spc, sample_crop, sample_red, sample_nir, sample_calls, sample_first, opc>>

OtherDone ==
    /\ opc = "drawing"
    /\ opc' = "idle"
    /\ UNCHANGED <<rng, spc, sample_crop, sample_red, sample_nir, sample_calls,
                   sample_first, other_draws>>

\* ---------------------------------------------------------------------
\* Claims about the sample bands
\* ---------------------------------------------------------------------

\* C28: within one process every call of load_sample_data for the same
\* field boundary and crop returns the same red and near-infrared bands, in
\* every interleaving with the other users of the global random state.
C28_SameBandsEveryCall ==
    spc = "done" => <<sample_red, sample_nir>> = sample_first[sample_crop]

\* =====================================================================
\* The analysis pipelines (app.py analyze_field, quick_analysis)
\* =====================================================================

VARIABLES
    apc,            \* "idle", "done"
    an_endpoint,    \* "analyze" or "quick-analysis"
    an_weather,     \* what get_current_weather returned
    an_ndvi,        \* smoothed_ndvi
    an_zones,       \* what detect_stress_zones returned for it
    an_rainfall     \* the rainfall assess_water_deficit estimated, thousandths of mm

analysisVars == <<apc, an_endpoint, an_weather, an_ndvi, an_zones, an_rainfall>>

WeatherKeys == {"temperature", "humidity", "description", "wind_speed", "wind_direction"}

\* weather_service.py lines 20-25 and 53-59: the sample record, temperature
\* in tenths of a degree
SampleWeather == [keys |-> WeatherKeys, temperature10 |-> 255, humidity |-> 65, rainfall |-> 0]

\* the branches of get_current_weather and the temperatures the API answers
WeatherBranches == {"no_api_key", "api_answered", "api_failed"}
ApiTemperatures10 == {412}

\* what estimate_rainfall returns inside assess_water_deficit, thousandths of mm
AnalysisRainfalls == {0, 25000}

GetCurrentWeather_withrain(branch, temperature10) ==
    IF branch = "api_answered"
    THEN [keys |-> WeatherKeys \cup {"rainfall"}, temperature10 |-> temperature10,
          humidity |-> 40, rainfall |-> 25]
    ELSE SampleWeather

\* WeatherService.get_current_weather, lines 18-59
GetCurrentWeather(branch, temperature10) ==
    IF branch = "api_answered"
    THEN [keys |-> WeatherKeys, temperature10 |-> temperature10, humidity |-> 40,
          rainfall |-> 0]
    ELSE SampleWeather

\* stress_analyzer.py line 30: weather and 'rainfall' in weather
ZoneWeatherOf(weather) ==
    [given |-> weather.keys # {}, has_rainfall |-> "rainfall" \in weather.keys,
     rainfall |-> IF "rainfall" \in weather.keys THEN weather.rainfall ELSE 0]

NoAnalysisWeather == [keys |-> {}, temperature10 |-> 0, humidity |-> 0, rainfall |-> 0]

InitAnalysis ==
    /\ apc = "idle"
    /\ an_endpoint = ""
    /\ an_weather = NoAnalysisWeather
    /\ an_ndvi = <<>>
    /\ an_zones = NoZones
    /\ an_rainfall = 0

\* app.py lines 207-220 and 321-334: get_current_weather, detect_stress_zones
\* on its record, then assess_water_deficit, which estimates its own rainfall
AnalyzeField(endpoint, g, branch, temperature10, estimated) ==
    /\ apc = "idle"
    /\ an_endpoint' = endpoint
    /\ an_ndvi' = g
    /\ an_weather' = GetCurrentWeather(branch, temperature10)
    /\ an_zones' = DetectStressZones(g, ZoneWeatherOf(GetCurrentWeather(branch, temperature10)))
    /\ an_rainfall' = estimated
    /\ apc' = "done"

\* ---------------------------------------------------------------------
\* Claims about the analysis pipelines
\* ---------------------------------------------------------------------

\* C29: in /api/analyze and /api/quick-analysis the weather record passed to
\* detect_stress_zones never carries a rainfall value, so every request is
\* classified with the default break points 0.3, 0.5, 0.6, whatever rainfall
\* assess_water_deficit uses for the same request.
C29_PipelineUsesDefaultBreakPoints ==
    apc = "done" =>
        /\ "rainfall" \notin an_weather.keys
        /\ \A p \in Cells(an_ndvi) :
             an_zones[p[1]][p[2]] = CategoryAt(an_ndvi[p[1]][p[2]], <<300, 500, 600>>)

\* values that rain above 20 mm would move to a healthier category, in a
\* request whose deficit is assessed with 25 mm of rain
C29_Witness ==
    /\ apc = "done"
    /\ an_endpoint = "analyze"
    /\ an_rainfall = 25000
    /\ an_weather.temperature10 = 412
    /\ an_ndvi = <<<<240, 540>>>>
    /\ an_zones = <<<<0, 2>>>>

\* =====================================================================
\* One-time passwords (auth/otp_service.py, models/farm.py)
\* =====================================================================
\* The otp_verification table is a sequence of rows in insertion order; the
\* clock counts periods of OTP validity (10 minutes).

VARIABLES
    otp_records,     \* the rows of otp_verification
    otp_now,         \* datetime.utcnow()
    otp_successes,   \* history: successful verifications per row
    otp_last         \* history: the last completed call

otpVars == <<otp_records, otp_now, otp_successes, otp_last>>

MaxOtpRecords == 2
MaxOtpClock == 2

\* timedelta(minutes=10), in clock periods
OtpValidity == 1

Mobiles == {"9000000001", "9000000002"}
Purposes == {"verification", "login"}
\* generate_otp draws 6 digits at random: the same code can be drawn again
OtpCodes == {"111111", "222222"}

InvalidatePrevious_kept(records, mobile, purpose) == records

\* create_otp lines 18-22: every unused row of the mobile and purpose is
\* marked used
InvalidatePrevious(records, mobile, purpose) ==
    [i \in DOMAIN records |->
        IF records[i].mobile = mobile /\ records[i].purpose = purpose /\ ~records[i].is_used
        THEN [records[i] EXCEPT !.is_used = TRUE]
        ELSE records[i]]

\* verify_otp lines 38-43: the rows the filter selects
Matching(records, mobile, otp_code, purpose) ==
    {i \in DOMAIN records :
        /\ records[i].mobile = mobile
        /\ records[i].otp_code = otp_code
        /\ records[i].purpose = purpose
        /\ ~records[i].is_used}

NoCall == [kind |-> "none", ok |-> FALSE, message |-> "", index |-> 0, mobile |-> "",
           otp_code |-> "", purpose |-> "", at |-> 0, before |-> <<>>]

InitOtp ==
    /\ otp_records = <<>>
    /\ otp_now = 0
    /\ otp_successes = <<>>
    /\ otp_last = NoCall

\* create_otp, lines 12-34
CreateOtp(mobile, purpose, otp_code) ==
    /\ Len(otp_records) < MaxOtpRecords
    /\ otp_records' = Append(InvalidatePrevious(otp_records, mobile, purpose),
                             [mobile |-> mobile, otp_code |-> otp_code, purpose |-> purpose,
                              expires_at |-> otp_now + OtpValidity, is_used |-> FALSE])
    /\ otp_successes' = Append(otp_successes, 0)
    /\ otp_last' = [kind |-> "create", ok |-> TRUE, message |-> "", index |-> Len(otp_records) + 1,
                    mobile |-> mobile, otp_code |-> otp_code, purpose |-> purpose,
                    at |-> otp_now, before |-> otp_records]
    /\ UNCHANGED otp_now

\* verify_otp, lines 36-55; .first() takes any of the selected rows
VerifyOtp(mobile, otp_code, purpose) ==
    LET matching == Matching(otp_records, mobile, otp_code, purpose)
        call == [kind |-> "verify", ok |-> FALSE, message |-> "", index |-> 0,
                 mobile |-> mobile, otp_code |-> otp_code, purpose |-> purpose,
                 at |-> otp_now, before |-> otp_records]
    IN  /\ IF matching = {}
           THEN /\ otp_last' = [call EXCEPT !.message = "Invalid OTP"]
                /\ UNCHANGED <<otp_records, otp_successes>>
           ELSE \E i \in matching :
                  IF otp_now > otp_records[i].expires_at
                  THEN /\ otp_last' = [call EXCEPT !.message = "OTP has expired", !.index = i]
                       /\ UNCHANGED <<otp_records, otp_successes>>
                  ELSE /\ otp_records' = [otp_records EXCEPT ![i].is_used = TRUE]
                       /\ otp_successes' = [otp_successes EXCEPT ![i] = @ + 1]
                       /\ otp_last' = [call EXCEPT !.ok = TRUE, !.index = i,
                                            !.message = "OTP verified successfully"]
        /\ UNCHANGED otp_now

\* time passes between calls
OtpTick ==
    /\ otp_now < MaxOtpClock
    /\ otp_now' = otp_now + 1
    /\ UNCHANGED <<otp_records, otp_successes, otp_last>>

\* ---------------------------------------------------------------------
\* Claims about the one-time passwords
\* ---------------------------------------------------------------------

\* a later row was created for the mobile and purpose of row i
Superseded(records, i) ==
    \E j \in DOMAIN records :
        j > i /\ records[j].mobile = records[i].mobile /\ records[j].purpose = records[i].purpose

\* C30: after any sequence of completed create_otp and verify_otp calls each
\* row has yielded at most one successful verification; a successful
\* verification is for the mobile, code and purpose of its row, which is
\* neither expired nor superseded by a later create_otp for the same mobile
\* and purpose; a failed verification leaves every row unchanged.
C30_OtpSingleUse ==
    /\ \A i \in DOMAIN otp_successes : otp_successes[i] <= 1
    /\ (otp_last.kind = "verify" /\ otp_last.ok) =>
         LET row == otp_last.before[otp_last.index]
         IN  /\ row.mobile = otp_last.mobile
             /\ row.purpose = otp_last.purpose
             /\ row.otp_code = otp_last.otp_code
             /\ otp_last.at <= row.expires_at
             /\ ~Superseded(otp_last.before, otp_last.index)
    /\ (otp_last.kind = "verify" /\ ~otp_last.ok) => otp_records = otp_last.before

\* the second of two rows with the same mobile, purpose and code has just
\* been verified
C30_Witness ==
    /\ otp_last.kind = "verify"
    /\ otp_last.ok
    /\ otp_last.index = 2
    /\ otp_last.before[1].mobile = otp_last.before[2].mobile
    /\ otp_last.before[1].purpose = otp_last.before[2].purpose
    /\ otp_last.before[1].otp_code = otp_last.before[2].otp_code
    /\ otp_successes[1] = 0

vars == <<predictorVars, zoneVars, recVars, roiVars, deficitVars, ndviVars, loaderVars, sampleVars, analysisVars, otpVars>>

Init == InitPredictor /\ InitZones /\ InitRec /\ InitRoi /\ InitDeficit /\ InitNdvi /\ InitLoader /\ InitSample /\ InitAnalysis /\ InitOtp

\* Training thread and one request thread, interleaved
Next ==
    \/ (TrainStart /\ UNCHANGED <<zoneVars, recVars, roiVars, deficitVars, ndviVars, loaderVars, sampleVars, analysisVars, otpVars>>)
    \/ (TrainAssign /\ UNCHANGED <<zoneVars, recVars, roiVars, deficitVars, ndviVars, loaderVars, sampleVars, analysisVars, otpVars>>)
    \/ (TrainFitBegin /\ UNCHANGED <<zoneVars, recVars, roiVars, deficitVars, ndviVars, loaderVars, sampleVars, analysisVars, otpVars>>)
    \/ (TrainFitEnd /\ UNCHANGED <<zoneVars, recVars, roiVars, deficitVars, ndviVars, loaderVars, sampleVars, analysisVars, otpVars>>)
    \/ (TrainImportance /\ UNCHANGED <<zoneVars, recVars, roiVars, deficitVars, ndviVars, loaderVars, sampleVars, analysisVars, otpVars>>)
    \/ (TrainSaveOpen /\ UNCHANGED <<zoneVars, recVars, roiVars, deficitVars, ndviVars, loaderVars, sampleVars, analysisVars, otpVars>>)
    \/ (TrainSave /\ UNCHANGED <<zoneVars, recVars, roiVars, deficitVars, ndviVars, loaderVars, sampleVars, analysisVars, otpVars>>)
    \/ (PredictCall(MaxConcForecast) /\ UNCHANGED <<zoneVars, recVars, roiVars, deficitVars, ndviVars, loaderVars, sampleVars, analysisVars, otpVars>>)
    \/ (PredictClass /\ UNCHANGED <<zoneVars, recVars, roiVars, deficitVars, ndviVars, loaderVars, sampleVars, analysisVars, otpVars>>)
    \/ (PredictProba /\ UNCHANGED <<zoneVars, recVars, roiVars, deficitVars, ndviVars, loaderVars, sampleVars, analysisVars, otpVars>>)
    \/ (PredictSummary /\ UNCHANGED <<zoneVars, recVars, roiVars, deficitVars, ndviVars, loaderVars, sampleVars, analysisVars, otpVars>>)
    \/ (PredictRespond /\ UNCHANGED <<zoneVars, recVars, roiVars, deficitVars, ndviVars, loaderVars, sampleVars, analysisVars, otpVars>>)
    \/ (PredictReturn /\ UNCHANGED <<zoneVars, recVars, roiVars, deficitVars, ndviVars, loaderVars, sampleVars, analysisVars, otpVars>>)

Spec == Init /\ [][Next]_vars

\* A predictor whose model is in place and is not being retrained
NextForecast ==
    \/ (PredictCall(MaxForecast) /\ UNCHANGED <<zoneVars, recVars, roiVars, deficitVars, ndviVars, loaderVars, sampleVars, analysisVars, otpVars>>)
    \/ (PredictClass /\ UNCHANGED <<zoneVars, recVars, roiVars, deficitVars, ndviVars, loaderVars, sampleVars, analysisVars, otpVars>>)
    \/ (PredictProba /\ UNCHANGED <<zoneVars, recVars, roiVars, deficitVars, ndviVars, loaderVars, sampleVars, analysisVars, otpVars>>)
    \/ (PredictSummary /\ UNCHANGED <<zoneVars, recVars, roiVars, deficitVars, ndviVars, loaderVars, sampleVars, analysisVars, otpVars>>)
    \/ (PredictRespond /\ UNCHANGED <<zoneVars, recVars, roiVars, deficitVars, ndviVars, loaderVars, sampleVars, analysisVars, otpVars>>)
    \/ (PredictReturn /\ UNCHANGED <<zoneVars, recVars, roiVars, deficitVars, ndviVars, loaderVars, sampleVars, analysisVars, otpVars>>)

SpecForecast == Init /\ [][NextForecast]_vars

\* The classifier alone, in a process whose predictor found no artifact
InitClassifier == Init /\ artifact = NoArtifact

NextZones ==
    \/ (zpc = "idle" /\ \E g \in Grids, w \in ZoneWeathers :
                            ClassifyField(g, w) /\ UNCHANGED <<predictorVars, recVars, roiVars, deficitVars, ndviVars, loaderVars, sampleVars, analysisVars, otpVars>>)
    \/ (zpc # "idle" /\ \E o \in OtherInputs :
                            ClassifyOther(o[1], o[2]) /\ UNCHANGED <<predictorVars, recVars, roiVars, deficitVars, ndviVars, loaderVars, sampleVars, analysisVars, otpVars>>)
    \/ (ClassifyAgain /\ UNCHANGED <<predictorVars, recVars, roiVars, deficitVars, ndviVars, loaderVars, sampleVars, analysisVars, otpVars>>)

SpecZones == InitClassifier /\ [][NextZones]_vars

\* The recommendation engine alone
NextRec ==
    \/ (rpc = "idle" /\ \E zs \in RecZoneStats, q \in RecQuadrants, d \in RecDeficits,
                          n \in RecNdviMeans, c \in RecCrops, ar \in RecAreas10 :
            /\ Recommend([zone_stats |-> zs, quadrants |-> q, deficit |-> d,
                          ndvi_mean |-> n, crop_type |-> c, field_area10 |-> ar])
            /\ UNCHANGED <<predictorVars, zoneVars, roiVars, deficitVars, ndviVars, loaderVars, sampleVars, analysisVars, otpVars>>)

SpecRec == InitClassifier /\ [][NextRec]_vars

\* The ROI endpoint alone
NextRoi ==
    \/ (roi_pc = "idle" /\ \E ar \in RoiAreas10, c \in CropInputs, zs \in RoiZoneStats,
                             r \in RoiRates, me \in RoiMethods, cy \in RoiCycles :
            /\ RoiEndpoint([field_area_ha10 |-> ar, crop_type |-> c, zone_stats |-> zs,
                            water_rate_per_1000l |-> r, irrigation_method |-> me,
                            irrigation_cycles |-> cy])
            /\ UNCHANGED <<predictorVars, zoneVars, recVars, deficitVars, ndviVars, loaderVars, sampleVars, analysisVars, otpVars>>)

SpecRoi == InitClassifier /\ [][NextRoi]_vars

\* The water deficit estimator alone
NextDeficit ==
    \/ (wpc = "idle" /\ \E w \in DeficitWeathers, rf \in DeficitRainfalls,
                          n \in DeficitNdviMeans, zs \in DeficitZoneStats :
            /\ AssessDeficit(w, rf, n, zs)
            /\ UNCHANGED <<predictorVars, zoneVars, recVars, roiVars, ndviVars, loaderVars, sampleVars, analysisVars, otpVars>>)

SpecDeficit == InitClassifier /\ [][NextDeficit]_vars

\* The vegetation index alone
NextNdvi ==
    \/ (npc = "idle" /\ \E n \in BandGrids :
            \E r \in {g \in BandGrids : DOMAIN g = DOMAIN n /\ DOMAIN g[1] = DOMAIN n[1]} :
                /\ ComputeNdvi(r, n)
                /\ UNCHANGED <<predictorVars, zoneVars, recVars, roiVars, deficitVars, loaderVars, sampleVars, analysisVars, otpVars>>)

SpecNdvi == InitClassifier /\ [][NextNdvi]_vars

\* The training thread of one process and the predictor of another
NextPersist ==
    \/ (TrainStart /\ UNCHANGED <<zoneVars, recVars, roiVars, deficitVars, ndviVars, loaderVars, sampleVars, analysisVars, otpVars>>)
    \/ (TrainAssign /\ UNCHANGED <<zoneVars, recVars, roiVars, deficitVars, ndviVars, loaderVars, sampleVars, analysisVars, otpVars>>)
    \/ (TrainFitBegin /\ UNCHANGED <<zoneVars, recVars, roiVars, deficitVars, ndviVars, loaderVars, sampleVars, analysisVars, otpVars>>)
    \/ (TrainFitEnd /\ UNCHANGED <<zoneVars, recVars, roiVars, deficitVars, ndviVars, loaderVars, sampleVars, analysisVars, otpVars>>)
    \/ (TrainImportance /\ UNCHANGED <<zoneVars, recVars, roiVars, deficitVars, ndviVars, loaderVars, sampleVars, analysisVars, otpVars>>)
    \/ (TrainSaveOpen /\ UNCHANGED <<zoneVars, recVars, roiVars, deficitVars, ndviVars, loaderVars, sampleVars, analysisVars, otpVars>>)
    \/ (TrainSave /\ UNCHANGED <<zoneVars, recVars, roiVars, deficitVars, ndviVars, loaderVars, sampleVars, analysisVars, otpVars>>)
    \/ (LoaderConstruct /\ UNCHANGED <<predictorVars, zoneVars, recVars, roiVars, deficitVars, ndviVars, sampleVars, analysisVars, otpVars>>)
    \/ (LoaderExit /\ UNCHANGED <<predictorVars, zoneVars, recVars, roiVars, deficitVars, ndviVars, sampleVars, analysisVars, otpVars>>)

SpecPersist == Init /\ [][NextPersist]_vars

\* Requests for one field and the other threads that use np.random
NextSample ==
    \/ (\E c \in SampleCrops : SampleSeed(c) /\ UNCHANGED <<predictorVars, zoneVars, recVars, roiVars, deficitVars, ndviVars, loaderVars, analysisVars, otpVars>>)
    \/ (SampleRed /\ UNCHANGED <<predictorVars, zoneVars, recVars, roiVars, deficitVars, ndviVars, loaderVars, analysisVars, otpVars>>)
    \/ (SampleNir /\ UNCHANGED <<predictorVars, zoneVars, recVars, roiVars, deficitVars, ndviVars, loaderVars, analysisVars, otpVars>>)
    \/ (SampleReturn /\ UNCHANGED <<predictorVars, zoneVars, recVars, roiVars, deficitVars, ndviVars, loaderVars, analysisVars, otpVars>>)
    \/ (SampleDone /\ UNCHANGED <<predictorVars, zoneVars, recVars, roiVars, deficitVars, ndviVars, loaderVars, analysisVars, otpVars>>)
    \/ (OtherSeed /\ UNCHANGED <<predictorVars, zoneVars, recVars, roiVars, deficitVars, ndviVars, loaderVars, analysisVars, otpVars>>)
    \/ (OtherDraw /\ UNCHANGED <<predictorVars, zoneVars, recVars, roiVars, deficitVars, ndviVars, loaderVars, analysisVars, otpVars>>)
    \/ (OtherDone /\ UNCHANGED <<predictorVars, zoneVars, recVars, roiVars, deficitVars, ndviVars, loaderVars, analysisVars, otpVars>>)

SpecSample == InitClassifier /\ [][NextSample]_vars

\* One request through an analysis pipeline
NextAnalysis ==
    \/ (apc = "idle" /\ \E e \in {"analyze", "quick-analysis"}, g \in Grids,
                          b \in WeatherBranches, t \in ApiTemperatures10,
                          rf \in AnalysisRainfalls :
            /\ AnalyzeField(e, g, b, t, rf)
            /\ UNCHANGED <<predictorVars, zoneVars, recVars, roiVars, deficitVars, ndviVars, loaderVars, sampleVars, otpVars>>)

SpecAnalysis == InitClassifier /\ [][NextAnalysis]_vars

\* Completed create_otp and verify_otp calls, one after the other
NextOtp ==
    \/ (\E mo \in Mobiles, pu \in Purposes, co \in OtpCodes :
            CreateOtp(mo, pu, co) /\ UNCHANGED <<predictorVars, zoneVars, recVars, roiVars, deficitVars, ndviVars, loaderVars, sampleVars, analysisVars>>)
    \/ (\E mo \in Mobiles, pu \in Purposes, co \in OtpCodes :
            VerifyOtp(mo, co, pu) /\ UNCHANGED <<predictorVars, zoneVars, recVars, roiVars, deficitVars, ndviVars, loaderVars, sampleVars, analysisVars>>)
    \/ (OtpTick /\ UNCHANGED <<predictorVars, zoneVars, recVars, roiVars, deficitVars, ndviVars, loaderVars, sampleVars, analysisVars>>)

SpecOtp == InitClassifier /\ [][NextOtp]_vars

====
